---- MODULE Spec2Model ----
(***************************************************************************)
(* Resume parser: validator, feature extractor, company matcher,           *)
(* recommendation engine and the /api/analyze request flow.                *)
(*                                                                         *)
(* Numbers.  The program computes with Python floats; the model computes   *)
(* the same quantities exactly, as integers in a fixed unit:               *)
(*   confidence of a validation      hundredths        (round(x, 2))       *)
(*   probability, factors, scores    tenths of percent (round(x, 1))       *)
(*   total_years                     tenths of a year  (round(x, 1))       *)
(*   avg_experience_required         a fraction num/den (a mean of ints)   *)
(*   cosine similarity               thousandths                           *)
(* Where the exact value lies halfway between two roundings, the float     *)
(* computation gives one or the other neighbour, depending on the binary   *)
(* representation of the operands: round(0.0055 * 100, 1) is 0.5 and       *)
(* round(0.0065 * 100, 1) is 0.7.  Every rounding therefore takes the      *)
(* direction of such a tie as an input.                                    *)
(***************************************************************************)
EXTENDS Integers, Sequences, FiniteSets, TLC

VARIABLES
    v_doc,              \* validator: the document under validation
    text,               \* validator: the text the last validate_* call worked on
    v_out,              \* validator: what the last validate_* call returned
    s_text,             \* scoring: the resume text
    features,           \* scoring: the FeatureRecord extracted from s_text
    company_profiles,   \* CompanyMatcher.company_profiles, in the mapping's order
    similarity,         \* scoring: the cosine similarity of the resume and each company
    s_out,              \* scoring: what the last scoring call returned
    uploads,            \* api: the files of the upload directory, by file name
    requests,           \* api: the requests in progress and their local variables
    metrics,            \* api: performance_tracker.metrics
    extractions,        \* extractor: the calls of extract_all_features so far
    ml_artifacts,       \* ml: the state of each file under trained_models
    ml_models,          \* ml: the attributes of the MLModelInference object
    ml_out,             \* ml: what the last prediction call returned
    threads,            \* tracker: the threads that call the tracker
    lock                \* tracker: the holder of performance_tracker.lock

validatorVars == <<v_doc, text, v_out>>

scoringVars == <<s_text, features, company_profiles, similarity, s_out>>

apiVars == <<uploads, requests, metrics>>

extractorVars == <<extractions>>

mlVars == <<ml_artifacts, ml_models, ml_out>>

threadVars == <<threads, lock>>

vars == <<validatorVars, scoringVars, apiVars, extractorVars, mlVars, threadVars>>

None == [kind |-> "none"]

(***************************************************************************)
(* Text.  A text is a set of lines of a fixed vocabulary, joined by        *)
(* newlines in the vocabulary's order, followed by `pad` filler lines.     *)
(* The tables below give, for each line, what the program's substring      *)
(* tests and regular expressions find in it (no pattern of the program     *)
(* matches across a line break of these lines).                            *)
(***************************************************************************)
StackLine == "Stack: python java javascript c++ c# ruby go rust php swift kotlin typescript django flask fastapi react angular vue node.js express spring asp.net sql mysql postgresql mongodb redis cassandra dynamodb oracle"

FillerLine == "Responsible for planning and delivery of client work."

LineOrder ==
    << "Experience", "Education", "Skills: Python, Java, Docker", "Projects",
       "Email on request", "Phone on request", "LinkedIn profile on request",
       "Bachelor of Technology", "Master of Science, MBA", "PhD thesis",
       "john.doe@example.com", "2018 - 2020", "2023 - 2020", "2017 - Present",
       StackLine >>

Lines == {LineOrder[i] : i \in 1..Len(LineOrder)}

\* The longest run of filler lines of a text.
MaxPad == 4

LineLen(l) ==
    CASE l = "Experience" -> 10
      [] l = "Education" -> 9
      [] l = "Skills: Python, Java, Docker" -> 28
      [] l = "Projects" -> 8
      [] l = "Email on request" -> 16
      [] l = "Phone on request" -> 16
      [] l = "LinkedIn profile on request" -> 27
      [] l = "Bachelor of Technology" -> 22
      [] l = "Master of Science, MBA" -> 22
      [] l = "PhD thesis" -> 10
      [] l = "john.doe@example.com" -> 20
      [] l = "2018 - 2020" -> 11
      [] l = "2023 - 2020" -> 11
      [] l = "2017 - Present" -> 14
      [] l = StackLine -> 208
      [] l = FillerLine -> 53

LineWords(l) ==
    CASE l = "Experience" -> 1
      [] l = "Education" -> 1
      [] l = "Skills: Python, Java, Docker" -> 4
      [] l = "Projects" -> 1
      [] l = "Email on request" -> 3
      [] l = "Phone on request" -> 3
      [] l = "LinkedIn profile on request" -> 4
      [] l = "Bachelor of Technology" -> 3
      [] l = "Master of Science, MBA" -> 4
      [] l = "PhD thesis" -> 2
      [] l = "john.doe@example.com" -> 1
      [] l = "2018 - 2020" -> 3
      [] l = "2023 - 2020" -> 3
      [] l = "2017 - Present" -> 3
      [] l = StackLine -> 31
      [] l = FillerLine -> 8

LineSections(l) ==
    CASE l = "Experience" -> {"experience"}
      [] l = "Education" -> {"education"}
      [] l = "Skills: Python, Java, Docker" -> {"skills"}
      [] l = "Projects" -> {"projects"}
      [] OTHER -> {}

LineIndicators(l) ==
    CASE l = "Email on request" -> {1}
      [] l = "Phone on request" -> {2}
      [] l = "LinkedIn profile on request" -> {3}
      [] l = "Bachelor of Technology" -> {5}
      [] l = "Master of Science, MBA" -> {5}
      [] l = "PhD thesis" -> {5}
      [] l = "john.doe@example.com" -> {4}
      [] l = "2018 - 2020" -> {7}
      [] l = "2023 - 2020" -> {7}
      [] l = "2017 - Present" -> {7}
      [] OTHER -> {}

LineContact(l) ==
    CASE l = "john.doe@example.com" -> {"email"}
      [] l = "2018 - 2020" -> {"phone"}
      [] l = "2023 - 2020" -> {"phone"}
      [] l = "2017 - Present" -> {"phone"}
      [] OTHER -> {}

LineSkills(l) ==
    CASE l = "Skills: Python, Java, Docker" -> {"docker", "java", "python"}
      [] l = StackLine -> {"angular", "asp.net", "c#", "c++", "cassandra", "django", "dynamodb", "express", "fastapi", "flask", "go", "java", "javascript", "kotlin", "mongodb", "mysql", "node.js", "oracle", "php", "postgresql", "python", "react", "redis", "ruby", "rust", "spring", "sql", "swift", "typescript", "vue"}
      [] OTHER -> {}

LineRanges(l) ==
    CASE l = "2018 - 2020" -> <<[start |-> 2018, end |-> 2020, open |-> FALSE]>>
      [] l = "2023 - 2020" -> <<[start |-> 2023, end |-> 2020, open |-> FALSE]>>
      [] l = "2017 - Present" -> <<[start |-> 2017, end |-> 0, open |-> TRUE]>>
      [] OTHER -> <<>>

LineDegrees(l) ==
    CASE l = "Bachelor of Technology" -> {"bachelor"}
      [] l = "Master of Science, MBA" -> {"master", "mba"}
      [] l = "PhD thesis" -> {"phd"}
      [] OTHER -> {}

\* A text: which vocabulary lines it holds, and how many filler lines follow.
Texts(lines) == [lines : SUBSET lines, pad : 0..MaxPad]

EmptyText == [lines |-> {}, pad |-> 0]

\* Python's None, where a text is expected.
PyNone == [kind |-> "None"]

\* The lines of text t, in order.
TextParts(t) ==
    SelectSeq(LineOrder, LAMBDA l : l \in t.lines) \o [i \in 1..t.pad |-> FillerLine]

PartSet(t) == t.lines \cup (IF t.pad > 0 THEN {FillerLine} ELSE {})

RECURSIVE SumSeq(_)
SumSeq(s) == IF s = <<>> THEN 0 ELSE Head(s) + SumSeq(Tail(s))

\* len(text): the lines and the newlines between them.
TextLen(t) ==
    LET p == TextParts(t)
    IN  IF p = <<>> THEN 0
        ELSE SumSeq([i \in 1..Len(p) |-> LineLen(p[i])]) + (Len(p) - 1)

\* len(text.split())
WordCount(t) ==
    LET p == TextParts(t) IN SumSeq([i \in 1..Len(p) |-> LineWords(p[i])])

(***************************************************************************)
(* PDFParser                                                               *)
(***************************************************************************)
\* A stored file: the text a PDF reader gets out of it, if it is readable.
Pdf(t) == [kind |-> "pdf", readable |-> TRUE, text |-> t]

BrokenPdf == [kind |-> "pdf", readable |-> FALSE, text |-> EmptyText]

NoFile == [kind |-> "nofile"]

extract_text_pymupdf(pdf) ==
    IF pdf.kind = "pdf" /\ pdf.readable THEN pdf.text ELSE EmptyText

extract_text_pdfplumber(pdf) ==
    IF pdf.kind = "pdf" /\ pdf.readable THEN pdf.text ELSE EmptyText

FallbackLen == 100

extract_text(pdf) ==
    LET t == extract_text_pymupdf(pdf)
    IN  IF TextLen(t) = 0 \/ TextLen(t) < FallbackLen
        THEN extract_text_pdfplumber(pdf)
        ELSE t

\* The contact fields (email, phone, linkedin, github) that are not None.
extract_contact_info(t) == UNION {LineContact(l) : l \in PartSet(t)}

(***************************************************************************)
(* ResumeValidator                                                         *)
(***************************************************************************)
resume_sections ==
    << "experience", "education", "skills", "work experience",
       "employment", "qualification", "projects", "internship",
       "objective", "summary", "achievements", "certifications" >>

\* The seven patterns, by their position in the list: 1 email keyword,
\* 2 phone keyword, 3 linkedin/github keyword, 4 email address, 5 degree
\* keyword, 6 month and year, 7 year range or "present".
resume_indicators == 1..7

\* section in text_lower
SectionIn(section, t) == section \in UNION {LineSections(l) : l \in PartSet(t)}

\* re.search(pattern, text_lower)
IndicatorIn(i, t) == i \in UNION {LineIndicators(l) : l \in PartSet(t)}

SectionsFound(t) ==
    SelectSeq(resume_sections, LAMBDA s : SectionIn(s, t))

IndicatorsFound(t) == Cardinality({i \in resume_indicators : IndicatorIn(i, t)})

Min(a, b) == IF a <= b THEN a ELSE b

Max(a, b) == IF a >= b THEN a ELSE b

MinTextLen == 200

\* min(sections/3, 1.0) * 0.6 + min(indicators/4, 1.0) * 0.4, in hundredths
\* (round(confidence, 2) of a multiple of 0.1 or 0.2 is the value itself).
Confidence_uncapped(sections, indicators) == sections * 20 + indicators * 10

Confidence(sections, indicators) == Min(sections, 3) * 20 + Min(indicators, 4) * 10

Returned(v) == [raised |-> FALSE, value |-> v]

Raised(e) == [raised |-> TRUE, error |-> e]

\* The limit of extract_text's fallback taken for the validator's.
TooShort_fallback_limit(t) == t = PyNone \/ TextLen(t) = 0 \/ TextLen(t) < FallbackLen

TooShort(t) == t = PyNone \/ TextLen(t) = 0 \/ TextLen(t) < MinTextLen

\* The gate with one section less.
ResumeGate_one_section(sections, indicators, has_contact) ==
    sections >= 1 /\ indicators >= 3 /\ has_contact

ResumeGate(sections, indicators, has_contact) ==
    sections >= 2 /\ indicators >= 3 /\ has_contact

\* Suggestions of a rejected document, in the order the code appends them.
Suggestions(sections, indicators, has_contact) ==
       (IF sections < 2
        THEN <<"Add standard resume sections like Education, Experience, Skills">>
        ELSE <<>>)
    \o (IF ~has_contact
        THEN <<"Include contact information (email, phone)">>
        ELSE <<>>)
    \o (IF indicators < 3
        THEN <<"Structure document with dates, job titles, and qualifications">>
        ELSE <<>>)

validate_resume(pdf) ==
    LET t == extract_text(pdf)
        names == SectionsFound(t)
        sections_found == Len(names)
        indicators_found == IndicatorsFound(t)
        contact_info == extract_contact_info(t)
        has_contact == contact_info # {}
        is_valid == ResumeGate(sections_found, indicators_found, has_contact)
    IN  IF TooShort(t)
        THEN Returned([is_valid |-> FALSE,
                       reason |-> "Document is too short or text extraction failed",
                       confidence |-> 0,
                       suggestions |-> <<"Please upload a PDF with readable text",
                                         "Ensure the resume is at least one page">>])
        ELSE Returned([is_valid |-> is_valid,
                       confidence |-> Confidence(sections_found, indicators_found),
                       sections_found |-> names,
                       has_contact_info |-> has_contact,
                       contact_details |-> contact_info,
                       text_length |-> TextLen(t),
                       word_count |-> WordCount(t),
                       reason |-> IF is_valid THEN "" ELSE
                                  "Document does not appear to be a valid resume",
                       suggestions |-> IF is_valid THEN <<>> ELSE
                                  Suggestions(sections_found, indicators_found, has_contact)])

TextGate(sections, indicators) == sections >= 2 /\ indicators >= 3

validate_text(t) ==
    IF TooShort(t)
    THEN Returned([is_valid |-> FALSE, reason |-> "Text is too short", confidence |-> 0])
    ELSE LET sections_found == Len(SectionsFound(t))
             indicators_found == IndicatorsFound(t)
         IN  Returned([is_valid |-> TextGate(sections_found, indicators_found),
                       confidence |-> Confidence(sections_found, indicators_found),
                       sections_found |-> sections_found,
                       indicators_found |-> indicators_found])

(***************************************************************************)
(* ResumeFeatureExtractor                                                  *)
(***************************************************************************)
\* found_skills kept from one call to the next.
extract_skills_accumulating(t) ==
    UNION {LineSkills(l) : l \in PartSet(t)}
        \cup UNION {extractions[i].result.skills : i \in DOMAIN extractions}

\* The skills of the skills database found in the text (list(set(...))).
extract_skills(t) == UNION {LineSkills(l) : l \in PartSet(t)}

\* The year the code puts for "present" and "current".
CurrentYear == 2025

\* re.findall(year_pattern, text.lower()): every range, in text order.
RECURSIVE YearRanges(_)
YearRanges(parts) ==
    IF parts = <<>> THEN <<>> ELSE LineRanges(Head(parts)) \o YearRanges(Tail(parts))

RangeMonths(r) ==
    LET end_year == IF r.open THEN CurrentYear ELSE r.end
    IN  (end_year - r.start) * 12

\* total_years = round(total_months / 12, 1), in tenths of a year;
\* total_months is a multiple of 12, so the rounding changes nothing.  No
\* line of the vocabulary names a job title, so positions is empty.
extract_experience(t) ==
    LET matches == YearRanges(TextParts(t))
        total_months == SumSeq([i \in 1..Len(matches) |-> RangeMonths(matches[i])])
    IN  [total_years |-> 10 * (total_months \div 12), positions |-> <<>>]

degrees ==
    << [degree |-> "phd", level |-> 5],      [degree |-> "ph.d", level |-> 5],
       [degree |-> "doctorate", level |-> 5], [degree |-> "master", level |-> 4],
       [degree |-> "m.tech", level |-> 4],   [degree |-> "mtech", level |-> 4],
       [degree |-> "m.s", level |-> 4],      [degree |-> "mba", level |-> 4],
       [degree |-> "bachelor", level |-> 3], [degree |-> "b.tech", level |-> 3],
       [degree |-> "btech", level |-> 3],    [degree |-> "b.e", level |-> 3],
       [degree |-> "b.s", level |-> 3],      [degree |-> "diploma", level |-> 2] >>

\* degree in text_lower
DegreeIn(d, t) == d \in UNION {LineDegrees(l) : l \in PartSet(t)}

RECURSIVE HighestLevel(_)
HighestLevel(education) ==
    IF education = <<>> THEN 0
    ELSE Max(Head(education).level, HighestLevel(Tail(education)))

\* extract_education recording one keyword per level.
extract_education_one_per_level(t) ==
    LET found == SelectSeq(degrees, LAMBDA d : DegreeIn(d.degree, t))
        education ==
            SelectSeq(found, LAMBDA d :
                d = found[CHOOSE i \in DOMAIN found : found[i].level = d.level
                              /\ \A j \in 1..(i - 1) : found[j].level # d.level])
    IN  [degrees |-> education, highest_level |-> HighestLevel(education)]

extract_education(t) ==
    LET education == SelectSeq(degrees, LAMBDA d : DegreeIn(d.degree, t))
    IN  [degrees |-> education, highest_level |-> HighestLevel(education)]

extract_all_features(t) ==
    [skills |-> extract_skills(t),
     experience |-> extract_experience(t),
     education |-> extract_education(t),
     text_length |-> TextLen(t),
     word_count |-> WordCount(t)]

(***************************************************************************)
(* CompanyMatcher                                                          *)
(***************************************************************************)
\* The companies of the profile store.  avg_experience_required is the mean
\* num/den of the years found in the postings; a company whose postings have
\* no description has the defaults.
Companies == {"Google", "TCS", "Infosys"}

StoredProfile(company) ==
    CASE company = "Google" ->
            [company_name |-> company, description_text |-> "google postings",
             avg_experience_required |-> [num |-> 20, den |-> 2]]
      [] company = "TCS" ->
            [company_name |-> company, description_text |-> "tcs postings",
             avg_experience_required |-> [num |-> 5, den |-> 1]]
      [] company = "Infosys" ->
            [company_name |-> company, description_text |-> "",
             avg_experience_required |-> [num |-> 2, den |-> 1]]

\* A company name that no profile store holds.
UnknownCompany == "Acme"

\* round(n/d): the nearest integer; halfway, the upper one if tie_up.
Round(n, d, tie_up) ==
    LET q == n \div d
        r == n % d
    IN  IF 2 * r > d THEN q + 1
        ELSE IF 2 * r < d THEN q
        ELSE IF tie_up THEN q + 1 ELSE q

\* The tie directions of one placement computation: of the completeness
\* factor, which depends on the resume alone, and of the probability.
Ties == [completeness : BOOLEAN, probability : BOOLEAN]

Names(profiles) == {profiles[i].company_name : i \in 1..Len(profiles)}

\* self.company_profiles[company_name]
Profile(profiles, company_name) ==
    profiles[CHOOSE i \in 1..Len(profiles) : profiles[i].company_name = company_name]

\* ' '.join(skills) + ' ' + ' '.join(positions) holds no word at all
BlankResumeText(resume_features) ==
    resume_features.skills = {} /\ resume_features.experience.positions = <<>>

\* Thousandths.  `cosine` is what TfidfVectorizer.fit_transform and
\* cosine_similarity give for the resume text and the company's text; a
\* resume text without a word has the zero vector and similarity 0.
calculate_match_score(profiles, cosine, resume_features, company_name) ==
    IF company_name \notin Names(profiles) THEN 0
    ELSE IF Profile(profiles, company_name).description_text = "" THEN 0
    ELSE IF BlankResumeText(resume_features) THEN 0
    ELSE cosine[company_name]

\* The last boundary taken exclusive.
ExperienceScore_exclusive(resume_exp, required_exp) ==
    IF resume_exp * required_exp.den >= 10 * required_exp.num THEN 10
    ELSE IF resume_exp * required_exp.den >= 7 * required_exp.num THEN 8
    ELSE IF resume_exp * required_exp.den > 5 * required_exp.num THEN 6
    ELSE 3

\* A candidate with more than twice the required years counted as 0.8.
ExperienceScore_overqualified(resume_exp, required_exp) ==
    IF resume_exp * required_exp.den > 20 * required_exp.num THEN 8
    ELSE IF resume_exp * required_exp.den >= 10 * required_exp.num THEN 10
    ELSE IF resume_exp * required_exp.den >= 7 * required_exp.num THEN 8
    ELSE IF resume_exp * required_exp.den >= 5 * required_exp.num THEN 6
    ELSE 3

\* Tenths: 10 for 1.0, 8 for 0.8, 6 for 0.6, 3 for 0.3.  resume_exp is in
\* tenths of a year and required_exp is the fraction num/den of years, so
\* resume_exp >= required_exp * 0.7 is resume_exp * den >= 7 * num.
ExperienceScore(resume_exp, required_exp) ==
    IF resume_exp * required_exp.den >= 10 * required_exp.num THEN 10
    ELSE IF resume_exp * required_exp.den >= 7 * required_exp.num THEN 8
    ELSE IF resume_exp * required_exp.den >= 5 * required_exp.num THEN 6
    ELSE 3

\* min(education_level / 5.0, 1.0), in fifths
EducationScore(education_level) == Min(education_level, 5)

\* min((len(skills) / 10) * 0.5 + min(text_length / 2000, 1.0) * 0.5, 1.0),
\* in 1/4000
CompletenessScore(skill_count, text_length) ==
    Min(200 * skill_count + Min(text_length, 2000), 4000)

\* The weights of the skills and experience factors exchanged.
FinalProbability_swapped(skills_score, experience_score, education_score, completeness_score) ==
    12 * skills_score + 1600 * experience_score + 1600 * education_score
        + completeness_score

\* final_probability * 1000 as a fraction over 40:
\* skills * 0.4 + experience * 0.3 + education * 0.2 + completeness * 0.1
FinalProbability(skills_score, experience_score, education_score, completeness_score) ==
    16 * skills_score + 1200 * experience_score + 1600 * education_score
        + completeness_score

\* The upper boundary taken inclusive.
ConfidenceLabel_inclusive(percentage) ==
    IF percentage >= 700 THEN "high" ELSE IF percentage > 400 THEN "medium" ELSE "low"

ConfidenceLabel(percentage) ==
    IF percentage > 700 THEN "high" ELSE IF percentage > 400 THEN "medium" ELSE "low"

NotFound(company_name) ==
    [company |-> company_name, probability |-> 0, factors |-> <<>>,
     message |-> "Company profile not found"]

calculate_placement_probability(profiles, cosine, resume_features, company_name, ties) ==
    IF company_name \notin Names(profiles) THEN NotFound(company_name)
    ELSE
    LET company_profile == Profile(profiles, company_name)
        skills_score == calculate_match_score(profiles, cosine, resume_features, company_name)
        resume_exp == resume_features.experience.total_years
        required_exp == company_profile.avg_experience_required
        experience_score == ExperienceScore(resume_exp, required_exp)
        education_score == EducationScore(resume_features.education.highest_level)
        completeness_score ==
            CompletenessScore(Cardinality(resume_features.skills), resume_features.text_length)
        percentage ==
            Round(FinalProbability(skills_score, experience_score,
                                   education_score, completeness_score),
                  40, ties.probability)
    IN  [company |-> company_name,
         probability |-> percentage,
         factors |-> [skills_match |-> skills_score,
                      experience_match |-> experience_score * 100,
                      education_match |-> education_score * 200,
                      completeness |-> Round(completeness_score, 4, ties.completeness)],
         required_experience |-> required_exp,
         candidate_experience |-> resume_exp,
         confidence |-> ConfidenceLabel(percentage)]

\* A sort that puts x before the results of equal probability.
RECURSIVE InsertByProbability_unstable(_, _)
InsertByProbability_unstable(x, sorted) ==
    IF sorted = <<>> THEN <<x>>
    ELSE IF Head(sorted).probability > x.probability
         THEN <<Head(sorted)>> \o InsertByProbability_unstable(x, Tail(sorted))
         ELSE <<x>> \o sorted

\* results.sort(key=probability, reverse=True): a stable sort, so x goes
\* behind every result whose probability is at least its own.
RECURSIVE InsertByProbability(_, _)
InsertByProbability(x, sorted) ==
    IF sorted = <<>> THEN <<x>>
    ELSE IF Head(sorted).probability >= x.probability
         THEN <<Head(sorted)>> \o InsertByProbability(x, Tail(sorted))
         ELSE <<x>> \o sorted

RECURSIVE SortByProbability(_)
SortByProbability(results) ==
    IF results = <<>> THEN <<>>
    ELSE InsertByProbability(results[Len(results)],
                             SortByProbability(SubSeq(results, 1, Len(results) - 1)))

\* ties gives each company's tie directions.
get_all_company_matches(profiles, cosine, resume_features, ties) ==
    SortByProbability(
        [i \in 1..Len(profiles) |->
            calculate_placement_probability(profiles, cosine, resume_features,
                                            profiles[i].company_name,
                                            ties[profiles[i].company_name])])

\* A lookup that enters a default profile for a company it does not find.
ProfilesAfterScoring_setdefault(profiles, company_name) ==
    IF company_name \in Names(profiles) THEN profiles
    ELSE Append(profiles, [company_name |-> company_name, description_text |-> "",
                           avg_experience_required |-> [num |-> 2, den |-> 1]])

\* A lookup that takes the profile out of the mapping (pop).
ProfilesAfterScoring_pop(profiles, company_name) ==
    SelectSeq(profiles, LAMBDA p : p.company_name # company_name)

\* What a scoring call leaves in self.company_profiles: the membership test
\* and the lookup add no entry.
ProfilesAfterScoring(profiles, company_name) == profiles

(***************************************************************************)
(* RecommendationEngine                                                    *)
(***************************************************************************)
\* The skills of skill_categories, in the order of the dictionary.
skill_categories ==
    << "Python", "Java", "JavaScript", "C++", "Go", "TypeScript",
       "React", "Django", "FastAPI", "Node.js", "Spring Boot", "AWS",
       "Azure", "GCP", "Docker", "Kubernetes", "SQL", "PostgreSQL",
       "MongoDB", "Redis", "Git", "CI/CD", "Jira", "Jenkins" >>

\* skill.lower()
Lower(skill) ==
    CASE skill = "Python" -> "python"
      [] skill = "Java" -> "java"
      [] skill = "JavaScript" -> "javascript"
      [] skill = "C++" -> "c++"
      [] skill = "Go" -> "go"
      [] skill = "TypeScript" -> "typescript"
      [] skill = "React" -> "react"
      [] skill = "Django" -> "django"
      [] skill = "FastAPI" -> "fastapi"
      [] skill = "Node.js" -> "node.js"
      [] skill = "Spring Boot" -> "spring boot"
      [] skill = "AWS" -> "aws"
      [] skill = "Azure" -> "azure"
      [] skill = "GCP" -> "gcp"
      [] skill = "Docker" -> "docker"
      [] skill = "Kubernetes" -> "kubernetes"
      [] skill = "SQL" -> "sql"
      [] skill = "PostgreSQL" -> "postgresql"
      [] skill = "MongoDB" -> "mongodb"
      [] skill = "Redis" -> "redis"
      [] skill = "Git" -> "git"
      [] skill = "CI/CD" -> "ci/cd"
      [] skill = "Jira" -> "jira"
      [] skill = "Jenkins" -> "jenkins"
      [] OTHER -> skill

\* The four components of overall_score, each times 40:
\* (skills_count / 15) * 30
SkillsComponent(skills_count) == 80 * skills_count

\* min(experience_years / 5, 1.0) * 30
ExperienceComponent(experience_years) == Min(24 * experience_years, 1200)

\* (education_level / 5) * 20
EducationComponent(education_level) == 160 * education_level

\* min(word_count / 800, 1.0) * 20
LengthComponent(word_count) == Min(word_count, 800)

\* overall_score * 40, before the cap at 100 and the rounding
OverallScore(skills_count, experience_years, education_level, word_count) ==
    SkillsComponent(skills_count) + ExperienceComponent(experience_years)
        + EducationComponent(education_level) + LengthComponent(word_count)

\* The experience strength given only above three years.
Strengths_above_three(skills_count, experience_years, education_level) ==
       (IF skills_count >= 10
        THEN <<[text |-> "Strong technical skill set with {} identified skills",
                n |-> skills_count]>>
        ELSE <<>>)
    \o (IF experience_years > 30
        THEN <<[text |-> "Solid work experience of {} years", n |-> experience_years]>>
        ELSE <<>>)
    \o (IF education_level >= 4
        THEN <<[text |-> "Advanced education qualification", n |-> 0]>>
        ELSE <<>>)

Strengths(skills_count, experience_years, education_level) ==
       (IF skills_count >= 10
        THEN <<[text |-> "Strong technical skill set with {} identified skills",
                n |-> skills_count]>>
        ELSE <<>>)
    \o (IF experience_years >= 30
        THEN <<[text |-> "Solid work experience of {} years", n |-> experience_years]>>
        ELSE <<>>)
    \o (IF education_level >= 4
        THEN <<[text |-> "Advanced education qualification", n |-> 0]>>
        ELSE <<>>)

\* The items put in the order of their priority, the highest number first.
Improvements_by_priority(skills_count, experience_years, word_count) ==
       (IF word_count < 500
        THEN <<[area |-> "Resume Length", impact |-> "Medium", priority |-> 2]>>
        ELSE <<>>)
    \o (IF skills_count < 8
        THEN <<[area |-> "Technical Skills", impact |-> "High", priority |-> 1]>>
        ELSE <<>>)
    \o (IF experience_years < 20
        THEN <<[area |-> "Experience", impact |-> "High", priority |-> 1]>>
        ELSE <<>>)

Improvements(skills_count, experience_years, word_count) ==
       (IF skills_count < 8
        THEN <<[area |-> "Technical Skills", impact |-> "High", priority |-> 1]>>
        ELSE <<>>)
    \o (IF experience_years < 20
        THEN <<[area |-> "Experience", impact |-> "High", priority |-> 1]>>
        ELSE <<>>)
    \o (IF word_count < 500
        THEN <<[area |-> "Resume Length", impact |-> "Medium", priority |-> 2]>>
        ELSE <<>>)

\* The catalog compared with the candidate's skills as they are written.
MissingSkills_case_sensitive(resume_features, company_matches, set_order) ==
    IF company_matches = <<>> THEN <<>>
    ELSE LET suggested ==
                 SelectSeq(set_order, LAMBDA skill : Lower(skill) \notin resume_features.skills)
         IN  SubSeq(suggested, 1, Min(10, Len(suggested)))

\* list(suggested_skills)[:10], where set_order is the order in which
\* Python iterates over a set of these strings.
MissingSkills(resume_features, company_matches, set_order) ==
    IF company_matches = <<>> THEN <<>>
    ELSE LET current_skills == {Lower(skill) : skill \in resume_features.skills}
             suggested ==
                 SelectSeq(set_order, LAMBDA skill : Lower(skill) \notin current_skills)
         IN  SubSeq(suggested, 1, Min(10, Len(suggested)))

\* The experience tip given below two years.
FormatSuggestions_below_two_years(resume_features, experience_years) ==
       (IF resume_features.skills = {}
        THEN <<"Add a dedicated 'Skills' section to highlight your technical expertise">>
        ELSE <<>>)
    \o (IF experience_years < 20
        THEN <<"Include an 'Experience' section with relevant projects, internships, or volunteer work">>
        ELSE <<>>)
    \o << "Use action verbs (developed, implemented, led) to describe accomplishments",
          "Quantify achievements with metrics (e.g., 'Improved performance by 30%')",
          "Keep formatting consistent throughout the document",
          "Ensure contact information is clearly visible at the top" >>

FormatSuggestions(resume_features, experience_years) ==
       (IF resume_features.skills = {}
        THEN <<"Add a dedicated 'Skills' section to highlight your technical expertise">>
        ELSE <<>>)
    \o (IF experience_years = 0
        THEN <<"Include an 'Experience' section with relevant projects, internships, or volunteer work">>
        ELSE <<>>)
    \o << "Use action verbs (developed, implemented, led) to describe accomplishments",
          "Quantify achievements with metrics (e.g., 'Improved performance by 30%')",
          "Keep formatting consistent throughout the document",
          "Ensure contact information is clearly visible at the top" >>

\* display_recommendations: the tips shown, format_suggestions[:5].
DisplayedTips(recommendations) ==
    SubSeq(recommendations.format_suggestions, 1,
           Min(5, Len(recommendations.format_suggestions)))

analyze_resume(resume_features, company_matches, set_order, tie_up) ==
    LET skills_count == Cardinality(resume_features.skills)
        experience_years == resume_features.experience.total_years
        education_level == resume_features.education.highest_level
        word_count == resume_features.word_count
        overall_score ==
            Min(OverallScore(skills_count, experience_years, education_level, word_count),
                4000)
    IN  [overall_score |-> Round(overall_score, 4, tie_up),
         strengths |-> Strengths(skills_count, experience_years, education_level),
         improvements |-> Improvements(skills_count, experience_years, word_count),
         missing_skills |-> MissingSkills(resume_features, company_matches, set_order),
         format_suggestions |-> FormatSuggestions(resume_features, experience_years),
         priority |-> "high"]

(***************************************************************************)
(* Specification of the validator: any text of the bounded vocabulary is   *)
(* validated, from a stored PDF (validate_resume) or directly              *)
(* (validate_text).                                                        *)
(***************************************************************************)
ValidatorLines ==
    { "Experience", "Education", "Skills: Python, Java, Docker", "Projects",
      "Email on request", "Phone on request", "LinkedIn profile on request",
      "Bachelor of Technology",
      "john.doe@example.com", "2018 - 2020" }

ValidatorIdle ==
    /\ v_doc = EmptyText
    /\ text = None
    /\ v_out = [op |-> "none"]

ScoringIdle ==
    /\ s_text = EmptyText
    /\ features = None
    /\ company_profiles = <<>>
    /\ similarity = [c \in Companies |-> 0]
    /\ s_out = [op |-> "none"]

ApiIdle ==
    /\ uploads = <<>>
    /\ requests = <<>>
    /\ metrics = None

ExtractorIdle == extractions = <<>>

MlIdle ==
    /\ ml_artifacts = <<>>
    /\ ml_models = None
    /\ ml_out = [op |-> "none"]

ThreadsIdle ==
    /\ threads = <<>>
    /\ lock = 0

OthersIdle == ExtractorIdle /\ MlIdle /\ ThreadsIdle

InitValidator ==
    /\ OthersIdle
    /\ v_doc \in Texts(ValidatorLines) \cup {PyNone}
    /\ text = None
    /\ v_out = [op |-> "none"]
    /\ ScoringIdle
    /\ ApiIdle

\* validate_resume on the stored document, which a PDF reader can read or not.
ValidateResumeCall ==
    /\ v_doc # PyNone
    /\ \E readable \in BOOLEAN :
           LET pdf == IF readable THEN Pdf(v_doc) ELSE BrokenPdf
           IN  /\ text' = extract_text(pdf)
               /\ v_out' = [op |-> "validate_resume", result |-> validate_resume(pdf)]
    /\ UNCHANGED <<extractorVars, mlVars, threadVars, v_doc, scoringVars, apiVars>>

ValidateTextCall ==
    /\ text' = v_doc
    /\ v_out' = [op |-> "validate_text", result |-> validate_text(v_doc)]
    /\ UNCHANGED <<extractorVars, mlVars, threadVars, v_doc, scoringVars, apiVars>>

NextValidator == ValidateResumeCall \/ ValidateTextCall

SpecValidator == InitValidator /\ [][NextValidator]_vars

Validated == v_out.op # "none"

LongText == Validated /\ text # PyNone /\ TextLen(text) >= 200

ShortText == Validated /\ (text = PyNone \/ TextLen(text) < 200)

\* C1: for every text of at least 200 characters, validate_resume and
\* validate_text report is_valid exactly when at least two sections and at
\* least three indicators are found and a contact field is present.
C1_ValidationGate ==
    LongText =>
        (v_out.result.value.is_valid <=>
            (/\ Len(SectionsFound(text)) >= 2
             /\ IndicatorsFound(text) >= 3
             /\ extract_contact_info(text) # {}))

\* C2: a text shorter than 200 characters (the empty text and the empty
\* result of a failed extraction included) is rejected with confidence 0.0
\* by an ordinary return, never by an exception.
C2_ShortTextRejected ==
    ShortText =>
        /\ ~v_out.result.raised
        /\ v_out.result.value.is_valid = FALSE
        /\ v_out.result.value.confidence = 0

\* C24: for every text of at least 200 characters the reported confidence is
\* min(sections_found/3, 1.0)*0.6 + min(indicators_found/4, 1.0)*0.4 (here in
\* hundredths); it lies in [0, 1], it is 1.0 exactly when sections_found >= 3
\* and indicators_found >= 4, and sections or indicators beyond these
\* thresholds do not change it.
C24_Confidence ==
    LongText =>
        LET sections_found == Len(SectionsFound(text))
            indicators_found == IndicatorsFound(text)
            confidence == v_out.result.value.confidence
        IN  /\ confidence =
                   (IF sections_found >= 3 THEN 60 ELSE 20 * sections_found)
                       + (IF indicators_found >= 4 THEN 40 ELSE 10 * indicators_found)
            /\ confidence \in 0..100
            /\ confidence = 100 <=> (sections_found >= 3 /\ indicators_found >= 4)

\* A text of at least 200 characters with four sections and five
\* indicators, one of each beyond the thresholds.
C24_Witness ==
    /\ LongText
    /\ Len(SectionsFound(text)) = 4
    /\ IndicatorsFound(text) = 5
    /\ v_out.result.value.confidence = 100

\* C28: every result of validate_resume or validate_text with is_valid =
\* true has confidence >= 0.7 (70 hundredths): no document is both valid
\* and of confidence below 0.7.
C28_ValidIsConfident ==
    (Validated /\ v_out.result.value.is_valid) =>
        v_out.result.value.confidence >= 70

\* A document accepted by validate_resume with exactly two sections and
\* three indicators, at confidence 0.7.
C28_Witness ==
    /\ v_out.op = "validate_resume"
    /\ v_out.result.value.is_valid
    /\ v_out.result.value.confidence = 70

\* The converse of C28 fails: validate_resume rejects a document of
\* confidence 1.0 in which no contact field is found.
C28_ConfidentInvalid ==
    /\ v_out.op = "validate_resume"
    /\ ~v_out.result.value.is_valid
    /\ v_out.result.value.confidence = 100
    /\ ~v_out.result.value.has_contact_info

\* A text that passes the three-way gate but is shorter than 200 characters.
C2_Witness ==
    /\ ShortText
    /\ text # PyNone
    /\ TextLen(text) > 100
    /\ Len(SectionsFound(text)) >= 2
    /\ IndicatorsFound(text) >= 3
    /\ extract_contact_info(text) # {}

(***************************************************************************)
(* Specification of the scoring path: a resume text and a profile store    *)
(* are given; the features are extracted and the matcher and the           *)
(* recommendation engine are called on them.                               *)
(***************************************************************************)
ScoringLines ==
    { "Skills: Python, Java, Docker", StackLine, "Bachelor of Technology",
      "PhD thesis", "2018 - 2020", "2023 - 2020", "2017 - Present" }

\* The orders in which the profile store can hold some of the companies.
CompanyOrders ==
    {order \in UNION {[1..n -> Companies] : n \in 0..Cardinality(Companies)} :
        \A i, j \in DOMAIN order : i # j => order[i] # order[j]}

\* The values the cosine similarity of a resume with words and a company with
\* a description takes, in thousandths.
SimValues == {250, 1000}

Reverse(seq) == [i \in 1..Len(seq) |-> seq[Len(seq) + 1 - i]]

\* Iteration orders of a Python set of catalog skills.
SetOrders == {skill_categories, Reverse(skill_categories)}

\* Tie directions per company; the completeness factor is computed from the
\* resume alone, so its direction is the same for every company.
CompanyTies ==
    {ties \in [Companies -> Ties] :
        \A c, d \in Companies : ties[c].completeness = ties[d].completeness}

InitScoring ==
    /\ OthersIdle
    /\ ValidatorIdle
    /\ ApiIdle
    /\ s_text \in Texts(ScoringLines)
    /\ features = None
    /\ \E order \in CompanyOrders :
           company_profiles = [i \in 1..Len(order) |-> StoredProfile(order[i])]
    /\ similarity \in [Companies -> SimValues \cup {0}]
    /\ \A c \in Companies :
           similarity[c] = 0 <=>
               (c \notin Names(company_profiles) \/ StoredProfile(c).description_text = "")
    /\ s_out = [op |-> "none"]

ExtractFeaturesCall ==
    /\ features = None
    /\ features' = extract_all_features(s_text)
    /\ UNCHANGED <<extractorVars, mlVars, threadVars,
                    apiVars, validatorVars, s_text, company_profiles, similarity, s_out>>

Ready == features # None /\ s_out.op = "none"

MatchScoreCall ==
    /\ Ready
    /\ \E company \in Companies \cup {UnknownCompany} :
           /\ s_out' = [op |-> "calculate_match_score", company |-> company,
                        before |-> company_profiles,
                        result |-> calculate_match_score(company_profiles, similarity,
                                                         features, company)]
           /\ company_profiles' = ProfilesAfterScoring(company_profiles, company)
    /\ UNCHANGED <<extractorVars, mlVars, threadVars,
                    apiVars, validatorVars, s_text, features, similarity>>

PlacementCall ==
    /\ Ready
    /\ \E company \in Companies \cup {UnknownCompany}, ties \in Ties :
           /\ s_out' = [op |-> "calculate_placement_probability", company |-> company,
                        before |-> company_profiles,
                        result |-> calculate_placement_probability(
                                       company_profiles, similarity, features, company,
                                       ties)]
           /\ company_profiles' = ProfilesAfterScoring(company_profiles, company)
    /\ UNCHANGED <<extractorVars, mlVars, threadVars,
                    apiVars, validatorVars, s_text, features, similarity>>

AllMatchesCall ==
    /\ Ready
    /\ \E ties \in CompanyTies :
           s_out' = [op |-> "get_all_company_matches", before |-> company_profiles,
                     result |-> get_all_company_matches(company_profiles, similarity,
                                                        features, ties)]
    /\ UNCHANGED <<extractorVars, mlVars, threadVars,
                    apiVars, validatorVars, s_text, features, company_profiles, similarity>>

\* RecommendationEngine.analyze_resume on the ranked matches, as the API calls it.
RecommendCall ==
    /\ s_out.op = "get_all_company_matches"
    /\ \E set_order \in SetOrders, tie_up \in BOOLEAN :
           s_out' = [op |-> "analyze_resume", before |-> company_profiles,
                     company_matches |-> s_out.result,
                     result |-> analyze_resume(features, s_out.result, set_order, tie_up)]
    /\ UNCHANGED <<extractorVars, mlVars, threadVars,
                    apiVars, validatorVars, s_text, features, company_profiles, similarity>>

NextScoring ==
    \/ ExtractFeaturesCall
    \/ MatchScoreCall
    \/ PlacementCall
    \/ AllMatchesCall
    \/ RecommendCall

SpecScoring == InitScoring /\ [][NextScoring]_vars

Placed == s_out.op = "calculate_placement_probability"

PlacedKnown == Placed /\ s_out.company \in Names(s_out.before)

\* C3: overall_score and every placement probability lie in 0..100.
C3_ScoresInRange ==
    /\ s_out.op = "analyze_resume" =>
           (0 <= s_out.result.overall_score /\ s_out.result.overall_score <= 1000)
    /\ Placed => (0 <= s_out.result.probability /\ s_out.result.probability <= 1000)
    /\ s_out.op = "get_all_company_matches" =>
           \A i \in DOMAIN s_out.result :
               0 <= s_out.result[i].probability /\ s_out.result[i].probability <= 1000

\* The part of C3 that holds: every placement probability lies in 0..100 and
\* overall_score is at most 100.
C3_ProbabilityInRange ==
    /\ s_out.op = "analyze_resume" => s_out.result.overall_score <= 1000
    /\ Placed => (0 <= s_out.result.probability /\ s_out.result.probability <= 1000)

\* Where company stands in the mapping.
Position(profiles, company) ==
    CHOOSE i \in 1..Len(profiles) : profiles[i].company_name = company

\* C4: get_all_company_matches returns one result per company of the
\* mapping, by probability non-increasing, results of equal probability in
\* the mapping's order; the empty mapping gives the empty sequence.
C4_MatchesRanked ==
    s_out.op = "get_all_company_matches" =>
        LET r == s_out.result
        IN  /\ Len(r) = Len(company_profiles)
            /\ {r[i].company : i \in DOMAIN r} = Names(company_profiles)
            /\ \A i, j \in DOMAIN r :
                   i < j =>
                     /\ r[i].probability >= r[j].probability
                     /\ r[i].probability = r[j].probability =>
                            Position(company_profiles, r[i].company)
                                < Position(company_profiles, r[j].company)

\* Three companies, two of equal probability, and a result that the sort moved.
C4_Witness ==
    /\ s_out.op = "get_all_company_matches"
    /\ Len(s_out.result) = 3
    /\ \E i, j \in DOMAIN s_out.result :
           i < j /\ s_out.result[i].probability = s_out.result[j].probability
    /\ \E i \in DOMAIN s_out.result :
           s_out.result[i].company # company_profiles[i].company_name

\* C5: the experience factor is 1.0 if c >= r, else 0.8 if c >= 0.7 r, else
\* 0.6 if c >= 0.5 r, else 0.3, every boundary inclusive: c = 0.5 r gives
\* 0.6, and c = 2 with r = 5 gives 0.3.
C5_ExperienceStep ==
    PlacedKnown =>
        LET c == s_out.result.candidate_experience
            num == s_out.result.required_experience.num
            den == s_out.result.required_experience.den
            e == s_out.result.factors.experience_match
        IN  /\ c * den >= 10 * num => e = 1000
            /\ (c * den < 10 * num /\ c * den >= 7 * num) => e = 800
            /\ (c * den < 7 * num /\ c * den >= 5 * num) => e = 600
            /\ c * den < 5 * num => e = 300
            /\ c * den = 5 * num => e = 600
            /\ (c = 20 /\ num = 5 * den) => e = 300

\* The candidate's years are exactly half of the required years.
C5_Witness ==
    /\ PlacedKnown
    /\ s_out.result.required_experience.num > 0
    /\ s_out.result.candidate_experience * s_out.result.required_experience.den
           = 5 * s_out.result.required_experience.num
    /\ s_out.result.factors.experience_match = 600

\* C9: a company that is not in the mapping scores probability 0.0 with the
\* marker 'Company profile not found' and match score 0.0, and the mapping
\* is as it was before the call.
C9_UnknownCompany ==
    (s_out.op \in {"calculate_placement_probability", "calculate_match_score"}
        /\ s_out.company \notin Names(s_out.before)) =>
        /\ company_profiles = s_out.before
        /\ Placed => /\ s_out.result.probability = 0
                     /\ s_out.result.message = "Company profile not found"
                     /\ s_out.result.company = s_out.company
        /\ s_out.op = "calculate_match_score" => s_out.result = 0

\* A company of the store's universe that this mapping does not hold, scored
\* for a resume with skills against a mapping that holds other companies.
C9_Witness ==
    /\ Placed
    /\ s_out.company \in Companies \ Names(s_out.before)
    /\ s_out.before # <<>>
    /\ features.skills # {}

\* C23: request-time scoring leaves the company-profile mapping as it is:
\* no step of calculate_match_score, calculate_placement_probability or
\* get_all_company_matches changes the keys or the fields of
\* company_profiles.
C23_ProfilesFrame == [][company_profiles' = company_profiles]_vars

\* A known company with a description has been scored against the full
\* mapping, which is as it was before the call.
C23_Witness ==
    /\ s_out.op = "calculate_match_score"
    /\ s_out.company \in Names(s_out.before)
    /\ s_out.result > 0
    /\ Len(company_profiles) = Cardinality(Companies)
    /\ company_profiles = s_out.before

\* C10: for a known company, probability = round(100 * (0.4 skills + 0.3
\* experience + 0.2 education + 0.1 completeness), 1) with education =
\* min(highest_level / 5, 1) and completeness = min((skill_count / 10) * 0.5
\* + min(text_length / 2000, 1) * 0.5, 1); each reported factor is in 0..100.
C10_Probability ==
    PlacedKnown =>
        LET f == s_out.result.factors
            level == features.education.highest_level
            skill_count == Cardinality(features.skills)
            length == IF features.text_length < 2000 THEN features.text_length ELSE 2000
            \* completeness in 1/4000
            uncapped == 200 * skill_count + length
            completeness == IF uncapped < 4000 THEN uncapped ELSE 4000
            education == IF level < 5 THEN 200 * level ELSE 1000
        IN  /\ f.education_match = education
            /\ \E up \in BOOLEAN : f.completeness = Round(completeness, 4, up)
            /\ \E up \in BOOLEAN :
                   s_out.result.probability =
                       Round(16 * f.skills_match + 12 * f.experience_match
                                 + 8 * education + completeness, 40, up)
            /\ \A k \in DOMAIN f : 0 <= f[k] /\ f[k] <= 1000

\* A known company, a positive similarity, a completeness below its cap and a
\* weighted sum that is rounded.
C10_Witness ==
    /\ PlacedKnown
    /\ s_out.result.factors.skills_match > 0
    /\ s_out.result.factors.completeness \in 1..999
    /\ s_out.result.factors.education_match > 0
    /\ (16 * s_out.result.factors.skills_match
           + 12 * s_out.result.factors.experience_match
           + 8 * s_out.result.factors.education_match
           + Min(200 * Cardinality(features.skills) + features.text_length, 4000)) % 40 # 0

\* The MatchResults of known companies that the last scoring call returned.
KnownResults ==
    IF PlacedKnown THEN {s_out.result}
    ELSE IF s_out.op = "get_all_company_matches"
    THEN {s_out.result[i] : i \in DOMAIN s_out.result}
    ELSE {}

\* C11: the confidence label of a MatchResult of a known company depends on
\* its probability alone: 'high' iff probability > 70, 'medium' iff
\* 40 < probability <= 70, 'low' iff probability <= 40.
C11_ConfidenceLabel ==
    \A m \in KnownResults :
        /\ m.confidence = "high" <=> m.probability > 700
        /\ m.confidence = "medium" <=> (400 < m.probability /\ m.probability <= 700)
        /\ m.confidence = "low" <=> m.probability <= 400

\* A probability of exactly 70.0, labelled 'medium'.
C11_Witness ==
    /\ PlacedKnown
    /\ s_out.result.probability = 700
    /\ s_out.result.confidence = "medium"

\* A probability of exactly 40.0, labelled 'low'.
C11_WitnessLow ==
    /\ PlacedKnown
    /\ s_out.result.probability = 400
    /\ s_out.result.confidence = "low"

(***************************************************************************)
(* PerformanceTracker                                                      *)
(***************************************************************************)
\* The values of a key of metrics['validation_stats']: absent, a count, or
\* the empty list that a defaultdict(list) enters for an absent key.
Missing == [kind |-> "missing"]

Count(n) == [kind |-> "int", n |-> n]

EmptyList == [kind |-> "list"]

\* self.metrics of a tracker that found no metrics file; default_factory is
\* the one of validation_stats.
FreshMetrics ==
    [default_factory |-> "int",
     validation_stats |-> [valid_resumes |-> Missing, invalid_resumes |-> Missing,
                           total_validations |-> Missing],
     total_requests |-> 0, successful_requests |-> 0, error_count |-> 0]

\* save_metrics writes the dictionaries and the counters as they are.
save_metrics(m) ==
    [validation_stats |-> m.validation_stats, total_requests |-> m.total_requests,
     successful_requests |-> m.successful_requests, error_count |-> m.error_count]

\* load_metrics in a new process: validation_stats becomes
\* defaultdict(list, saved['validation_stats']).
load_metrics(saved) ==
    [default_factory |-> "list",
     validation_stats |-> saved.validation_stats,
     total_requests |-> saved.total_requests,
     successful_requests |-> saved.successful_requests,
     error_count |-> saved.error_count]

\* self.metrics['validation_stats'][key] += 1
Increment(m, key) ==
    LET v == m.validation_stats[key]
    IN  IF v.kind = "int"
        THEN [raised |-> FALSE,
              metrics |-> [m EXCEPT !.validation_stats[key] = Count(v.n + 1)]]
        ELSE IF v.kind = "missing" /\ m.default_factory = "int"
        THEN [raised |-> FALSE, metrics |-> [m EXCEPT !.validation_stats[key] = Count(1)]]
        ELSE [raised |-> TRUE, metrics |-> [m EXCEPT !.validation_stats[key] = EmptyList]]

\* The list of confidence scores is not part of the model.
track_validation(m, is_valid) ==
    LET first == Increment(m, IF is_valid THEN "valid_resumes" ELSE "invalid_resumes")
    IN  IF first.raised THEN first ELSE Increment(first.metrics, "total_validations")

\* track_request without its elif branch.
track_request_errors_uncounted(m, status) ==
    [m EXCEPT !.total_requests = @ + 1,
              !.successful_requests = IF status = "success" THEN @ + 1 ELSE @]

track_request(m, status) ==
    [m EXCEPT !.total_requests = @ + 1,
              !.successful_requests = IF status = "success" THEN @ + 1 ELSE @,
              !.error_count = IF status = "error" THEN @ + 1 ELSE @]

\* The counters of get_statistics; success_rate, rounded to two places, is
\* in hundredths of a percent.
get_statistics(m, tie_up) ==
    [total_requests |-> m.total_requests,
     successful_requests |-> m.successful_requests,
     error_count |-> m.error_count,
     success_rate |->
         Round(m.successful_requests * 10000, Max(m.total_requests, 1), tie_up)]

(***************************************************************************)
(* api/main.py: the handlers of /api/analyze and /api/validate-only.  Each *)
(* request is a sequence of steps; the steps of different requests         *)
(* interleave, as they do when several workers serve the application over  *)
(* one upload directory.                                                   *)
(***************************************************************************)
MaxRequests == 2

Requests == 1..MaxRequests

FileNames == {"cv.pdf", "resume.pdf", "notes.txt"}

\* file.filename.endswith('.pdf')
EndsWithPdf(filename) == filename \in {"cv.pdf", "resume.pdf"}

ResumeA ==
    [lines |-> {"Experience", "Education", "Skills: Python, Java, Docker",
                "Bachelor of Technology", "john.doe@example.com", "2018 - 2020"},
     pad |-> 3]

ResumeB ==
    [lines |-> {"Experience", "Education", "PhD thesis", "john.doe@example.com",
                "2017 - Present", StackLine},
     pad |-> 0]

Letter == [lines |-> {"Experience"}, pad |-> 4]

Documents == {ResumeA, ResumeB, Letter}

\* An entry of the upload directory: the file and the request that wrote it.
NoEntry == [owner |-> 0, content |-> NoFile]

Entry(r, content) == [owner |-> r, content |-> content]

\* file_path.exists()
Exists(dir, filename) == dir[filename].content # NoFile

NewRequest(endpoint, filename, upload) ==
    [endpoint |-> endpoint, filename |-> filename, upload |-> upload, pc |-> "start",
     stages |-> <<>>, validation |-> None, features |-> None,
     company_matches |-> None, recommendations |-> None, response |-> None]

HTTPException(status_code, detail) == [status_code |-> status_code, detail |-> detail]

JSONResponse(status_code, content) == [status_code |-> status_code, content |-> content]

\* The profile store the application starts with, and the similarity of a
\* resume that has words with each company.
ApiProfiles == <<StoredProfile("Google"), StoredProfile("TCS"), StoredProfile("Infosys")>>

ApiSimilarity == [c \in Companies |-> CASE c = "Google" -> 350
                                        [] c = "TCS" -> 1000
                                        [] c = "Infosys" -> 0]

\* The trackers a process can start with: one that found no metrics file,
\* and one that loaded what an earlier process saved after no validation,
\* after a valid one or after an invalid one.
StartMetrics ==
    {FreshMetrics, load_metrics(save_metrics(FreshMetrics))}
    \cup {load_metrics(save_metrics(track_validation(FreshMetrics, is_valid).metrics)) :
              is_valid \in BOOLEAN}

InitApi ==
    /\ OthersIdle
    /\ ValidatorIdle
    /\ s_text = EmptyText
    /\ features = None
    /\ company_profiles = ApiProfiles
    /\ similarity = ApiSimilarity
    /\ s_out = [op |-> "none"]
    /\ uploads = [f \in FileNames |-> NoEntry]
    /\ requests \in [Requests -> {NewRequest(endpoint, filename, upload) :
                                     endpoint \in {"analyze", "validate_only"},
                                     filename \in FileNames, upload \in Documents}]
    /\ metrics \in StartMetrics

\* if not file.filename.endswith('.pdf')
TypeCheck ==
    /\ \E r \in Requests :
           LET q == requests[r]
           IN  /\ q.pc = "start"
               /\ IF EndsWithPdf(q.filename)
                  THEN /\ requests' = [requests EXCEPT ![r].pc = "save"]
                       /\ UNCHANGED metrics
                  ELSE IF q.endpoint = "analyze"
                  THEN /\ requests' = [requests EXCEPT ![r].pc = "done",
                              ![r].response =
                                  HTTPException(400, "Only PDF files are supported")]
                       /\ metrics' = track_request(metrics, "error")
                  ELSE /\ requests' = [requests EXCEPT ![r].pc = "done",
                              ![r].response = HTTPException(400, "Only PDF files supported")]
                       /\ UNCHANGED metrics
    /\ UNCHANGED <<extractorVars, mlVars, threadVars, validatorVars, scoringVars, uploads>>

\* open(file_path, "wb") and shutil.copyfileobj: open can fail, which leaves
\* the directory as it is, and the copy can fail after open created or
\* truncated the file.  /api/analyze saves before its try block and
\* /api/validate-only inside it.
SaveUpload ==
    /\ \E r \in Requests, outcome \in {"saved", "open failed", "copy failed"} :
           LET q == requests[r]
           IN  /\ q.pc = "save"
               /\ uploads' =
                      CASE outcome = "saved" ->
                               [uploads EXCEPT ![q.filename] = Entry(r, Pdf(q.upload))]
                        [] outcome = "open failed" -> uploads
                        [] outcome = "copy failed" ->
                               [uploads EXCEPT ![q.filename] = Entry(r, BrokenPdf)]
               /\ IF outcome = "saved"
                  THEN /\ requests' = [requests EXCEPT ![r].pc = "validate"]
                       /\ UNCHANGED metrics
                  ELSE IF q.endpoint = "analyze"
                  THEN /\ requests' = [requests EXCEPT ![r].pc = "done",
                              ![r].response = HTTPException(500, "Failed to save file")]
                       /\ metrics' = track_request(metrics, "error")
                  ELSE /\ requests' = [requests EXCEPT ![r].pc = "finally",
                              ![r].response = HTTPException(500, "Internal Server Error")]
                       /\ UNCHANGED metrics
    /\ UNCHANGED <<extractorVars, mlVars, threadVars, validatorVars, scoringVars>>

\* Step 1 of /api/analyze: validator.validate_resume(str(file_path))
ValidateStage ==
    /\ \E r \in Requests :
           LET q == requests[r]
           IN  /\ q.pc = "validate"
               /\ q.endpoint = "analyze"
               /\ requests' = [requests EXCEPT
                      ![r].validation = validate_resume(uploads[q.filename].content).value,
                      ![r].stages = Append(@, "validate"),
                      ![r].pc = "track_validation"]
    /\ UNCHANGED <<extractorVars, mlVars, threadVars,
                    validatorVars, scoringVars, uploads, metrics>>

\* performance_tracker.track_validation(is_valid, confidence); an exception
\* leads to the except clause.
TrackValidation ==
    /\ \E r \in Requests :
           LET q == requests[r]
               tracked == track_validation(metrics, q.validation.is_valid)
           IN  /\ q.pc = "track_validation"
               /\ metrics' = tracked.metrics
               /\ requests' = [requests EXCEPT ![r].pc =
                      IF tracked.raised THEN "except"
                      ELSE IF q.validation.is_valid THEN "extract"
                      ELSE "invalid_return"]
    /\ UNCHANGED <<extractorVars, mlVars, threadVars, validatorVars, scoringVars, uploads>>

\* if not is_valid: the response holds the negative validation result only.
InvalidReturn ==
    /\ \E r \in Requests :
           LET q == requests[r]
           IN  /\ q.pc = "invalid_return"
               /\ metrics' = track_request(metrics, "success")
               /\ requests' = [requests EXCEPT
                      ![r].response = JSONResponse(400,
                          [validation |-> [is_valid |-> FALSE,
                                           confidence |-> q.validation.confidence,
                                           message |-> q.validation.reason,
                                           suggestions |-> q.validation.suggestions]]),
                      ![r].pc = "finally"]
    /\ UNCHANGED <<extractorVars, mlVars, threadVars, validatorVars, scoringVars, uploads>>

\* Step 2: PDFParser.extract_text(str(file_path)) reads the file again, and
\* feature_extractor.extract_all_features works on what it read.
ExtractStage ==
    /\ \E r \in Requests :
           LET q == requests[r]
               resume_text == extract_text(uploads[q.filename].content)
           IN  /\ q.pc = "extract"
               /\ requests' = [requests EXCEPT
                      ![r].features = extract_all_features(resume_text),
                      ![r].stages = Append(@, "extract"),
                      ![r].pc = "match"]
    /\ UNCHANGED <<extractorVars, mlVars, threadVars,
                    validatorVars, scoringVars, uploads, metrics>>

\* Step 3: matcher.get_all_company_matches(resume_features).  The statistics
\* of track_company_matching are not part of the model.
MatchStage ==
    /\ \E r \in Requests, ties \in CompanyTies :
           LET q == requests[r]
           IN  /\ q.pc = "match"
               /\ requests' = [requests EXCEPT
                      ![r].company_matches =
                          get_all_company_matches(company_profiles, similarity,
                                                  q.features, ties),
                      ![r].stages = Append(@, "match"),
                      ![r].pc = "recommend"]
    /\ UNCHANGED <<extractorVars, mlVars, threadVars,
                    validatorVars, scoringVars, uploads, metrics>>

\* Step 4: recommender.analyze_resume(resume_features, company_matches)
RecommendStage ==
    /\ \E r \in Requests, set_order \in SetOrders, tie_up \in BOOLEAN :
           LET q == requests[r]
           IN  /\ q.pc = "recommend"
               /\ requests' = [requests EXCEPT
                      ![r].recommendations =
                          analyze_resume(q.features, q.company_matches, set_order, tie_up),
                      ![r].stages = Append(@, "recommend"),
                      ![r].pc = "respond"]
    /\ UNCHANGED <<extractorVars, mlVars, threadVars,
                    validatorVars, scoringVars, uploads, metrics>>

\* The response of a valid resume (the timings are left out).
Respond ==
    /\ \E r \in Requests :
           LET q == requests[r]
           IN  /\ q.pc = "respond"
               /\ metrics' = track_request(metrics, "success")
               /\ requests' = [requests EXCEPT
                      ![r].response = JSONResponse(200,
                          [validation |-> [is_valid |-> TRUE,
                                           confidence |-> q.validation.confidence,
                                           message |-> "Valid resume detected",
                                           details |-> q.validation],
                           features |-> [skills |-> q.features.skills,
                                         experience_years |->
                                             q.features.experience.total_years,
                                         education_level |->
                                             q.features.education.highest_level,
                                         word_count |-> q.features.word_count],
                           company_matches |-> SubSeq(q.company_matches, 1,
                                                      Min(10, Len(q.company_matches))),
                           recommendations |-> q.recommendations]),
                      ![r].pc = "finally"]
    /\ UNCHANGED <<extractorVars, mlVars, threadVars, validatorVars, scoringVars, uploads>>

\* except Exception: the request is tracked as an error and answered with 500.
Except ==
    /\ \E r \in Requests :
           /\ requests[r].pc = "except"
           /\ metrics' = track_request(metrics, "error")
           /\ requests' = [requests EXCEPT
                  ![r].response = HTTPException(500, "Analysis failed"),
                  ![r].pc = "finally"]
    /\ UNCHANGED <<extractorVars, mlVars, threadVars, validatorVars, scoringVars, uploads>>

\* /api/validate-only: validate_resume and the response.
ValidateOnly ==
    /\ \E r \in Requests :
           LET q == requests[r]
               details == validate_resume(uploads[q.filename].content).value
           IN  /\ q.pc = "validate"
               /\ q.endpoint = "validate_only"
               /\ requests' = [requests EXCEPT
                      ![r].validation = details,
                      ![r].response = JSONResponse(200,
                          [is_valid |-> details.is_valid,
                           confidence |-> details.confidence,
                           details |-> details]),
                      ![r].pc = "finally"]
    /\ UNCHANGED <<extractorVars, mlVars, threadVars,
                    validatorVars, scoringVars, uploads, metrics>>

\* finally: if file_path.exists(): file_path.unlink()
Finally ==
    /\ \E r \in Requests :
           LET q == requests[r]
           IN  /\ q.pc = "finally"
               /\ uploads' = IF Exists(uploads, q.filename)
                             THEN [uploads EXCEPT ![q.filename] = NoEntry]
                             ELSE uploads
               /\ requests' = [requests EXCEPT ![r].pc = "done"]
    /\ UNCHANGED <<extractorVars, mlVars, threadVars, validatorVars, scoringVars, metrics>>

NextApi ==
    \/ TypeCheck
    \/ SaveUpload
    \/ ValidateStage
    \/ TrackValidation
    \/ InvalidReturn
    \/ ExtractStage
    \/ MatchStage
    \/ RecommendStage
    \/ Respond
    \/ Except
    \/ ValidateOnly
    \/ Finally

SpecApi == InitApi /\ [][NextApi]_vars

StageOrder == <<"validate", "extract", "match", "recommend">>

IsPrefix(p, q) == Len(p) <= Len(q) /\ \A i \in 1..Len(p) : p[i] = q[i]

Analyzing(r) == requests # <<>> /\ requests[r].endpoint = "analyze"

Finished(r) == requests # <<>> /\ requests[r].pc = "done"

\* C6: the stages of /api/analyze run in the order validate, extract
\* features, match companies, recommend; the last three start only after the
\* validation returned is_valid = true; and when it returned false none of
\* them runs and the response carries only the negative validation result
\* with its suggestions.
C6_StagesGated ==
    \A r \in Requests :
        Analyzing(r) =>
            LET q == requests[r]
            IN  /\ IsPrefix(q.stages, StageOrder)
                /\ Len(q.stages) >= 2 => q.validation.is_valid
                /\ (Finished(r) /\ q.validation # None /\ ~q.validation.is_valid) =>
                       /\ q.stages = <<"validate">>
                       /\ q.response =
                              JSONResponse(400,
                                  [validation |->
                                       [is_valid |-> FALSE,
                                        confidence |-> q.validation.confidence,
                                        message |-> q.validation.reason,
                                        suggestions |-> q.validation.suggestions]])

\* What a request computes from its own document when it runs alone.
AloneValidation(q) == validate_resume(Pdf(q.upload)).value

AloneFeatures(q) == extract_all_features(extract_text(Pdf(q.upload)))

\* C7: in every interleaving of concurrent requests, the validation result,
\* the FeatureRecord, the MatchResult list and the RecommendationSet of each
\* request are the ones the request produces alone on its own document and
\* the same profile store, two uploads of the same file name included.
C7_RequestsIndependent ==
    \A r \in Requests :
        Analyzing(r) =>
            LET q == requests[r]
            IN  /\ q.validation # None => q.validation = AloneValidation(q)
                /\ q.features # None => q.features = AloneFeatures(q)
                /\ q.company_matches # None =>
                       \E ties \in CompanyTies :
                           q.company_matches =
                               get_all_company_matches(company_profiles, similarity,
                                                       AloneFeatures(q), ties)
                /\ q.recommendations # None =>
                       \E ties \in CompanyTies, set_order \in SetOrders, tie_up \in BOOLEAN :
                           q.recommendations =
                               analyze_resume(
                                   AloneFeatures(q),
                                   get_all_company_matches(company_profiles, similarity,
                                                           AloneFeatures(q), ties),
                                   set_order, tie_up)

\* C8: when a request to /api/analyze or /api/validate-only has finished,
\* whatever its outcome, the file it wrote under the upload directory no
\* longer exists.
C8_UploadRemoved ==
    \A r \in Requests :
        Finished(r) => uploads[requests[r].filename].owner # r

\* The /api/analyze requests that have passed their track_request call.
Tracked ==
    {r \in Requests : /\ requests[r].endpoint = "analyze"
                      /\ requests[r].pc \in {"finally", "done"}}

\* Of those, the ones answered with a JSONResponse, and the ones answered
\* with an HTTPException.
Answered == {r \in Tracked : "content" \in DOMAIN requests[r].response}

Refused == {r \in Tracked : "detail" \in DOMAIN requests[r].response}

\* C20: every /api/analyze request, whatever its outcome (wrong file type,
\* save failure, invalid resume, success, internal fault), increments
\* total_requests exactly once and exactly one of successful_requests and
\* error_count; total_requests = successful_requests + error_count always
\* holds, and success_rate lies in 0..100 and is 0 when no request was made.
C20_CountersConsistent ==
    /\ metrics.total_requests = Cardinality(Tracked)
    /\ metrics.successful_requests = Cardinality(Answered)
    /\ metrics.error_count = Cardinality(Refused)
    /\ metrics.total_requests = metrics.successful_requests + metrics.error_count
    /\ \A tie_up \in BOOLEAN :
           LET stats == get_statistics(metrics, tie_up)
           IN  /\ stats.success_rate \in 0..10000
               /\ stats.total_requests = 0 => stats.success_rate = 0

\* Two finished /api/analyze requests, one answered with the analysis and
\* one ended by an internal fault: success_rate is 50.0.
C20_Witness ==
    /\ \A r \in Requests : Finished(r) /\ requests[r].endpoint = "analyze"
    /\ \E r \in Requests : requests[r].response.status_code = 200
    /\ \E r \in Requests :
           requests[r].response = HTTPException(500, "Analysis failed")
    /\ get_statistics(metrics, TRUE).success_rate = 5000

\* validation_stats[key] as a number, a key never written counting 0.
Stat(key) ==
    IF metrics.validation_stats[key].kind = "int"
    THEN metrics.validation_stats[key].n ELSE 0

\* C27: in a process whose tracker loaded the metrics an earlier process
\* saved, whatever validations that process had tracked, track_validation
\* completes without raising for valid and for invalid resumes and keeps
\* total_validations = valid_resumes + invalid_resumes, and the analysis of a
\* valid resume is not turned into a failed request.
C27_ReloadSafe ==
    metrics.default_factory = "list" =>
        /\ \A r \in Requests : requests[r].pc # "except"
        /\ Stat("total_validations") = Stat("valid_resumes") + Stat("invalid_resumes")
        /\ \A r \in Requests :
               (/\ requests[r].endpoint = "analyze"
                /\ Finished(r)
                /\ requests[r].validation # None
                /\ requests[r].validation.is_valid) =>
                   requests[r].response # HTTPException(500, "Analysis failed")

(***************************************************************************)
(* Specification of the recommendation engine on FeatureRecords given by   *)
(* the caller, as in test_recommendations.py: any record of the bounded    *)
(* set is analysed, with an empty or a non-empty list of matches.          *)
(***************************************************************************)
\* The first n skills of the catalog, as the extractor writes them.
CatalogSkills(n) == {Lower(skill_categories[i]) : i \in 1..n}

SkillCounts == {0, 7, 8, 9, 10, 12, 16}

\* Skill sets of a caller's record; one is spelled as the catalog spells it.
SkillSets == {CatalogSkills(n) : n \in SkillCounts} \cup {{"Python", "Java", "docker"}}

\* total_years, in tenths of a year
YearValues == {0, 19, 20, 29, 30, 35, 50, 80}

WordCounts == {0, 499, 500, 650, 800, 1200}

FeatureRecords ==
    [skills : SkillSets,
     experience : [total_years : YearValues, positions : {<<>>}],
     education : [degrees : {<<>>}, highest_level : 0..5],
     text_length : {2000},
     word_count : WordCounts]

InitRecommend ==
    /\ OthersIdle
    /\ ValidatorIdle
    /\ ApiIdle
    /\ s_text = EmptyText
    /\ features \in FeatureRecords
    /\ company_profiles \in {<<>>, ApiProfiles}
    /\ similarity = ApiSimilarity
    /\ s_out = [op |-> "none"]

\* matcher.get_all_company_matches(features)
MatchRecordCall ==
    /\ s_out.op = "none"
    /\ \E ties \in CompanyTies :
           s_out' = [op |-> "get_all_company_matches", before |-> company_profiles,
                     result |-> get_all_company_matches(company_profiles, similarity,
                                                        features, ties)]
    /\ UNCHANGED <<extractorVars, mlVars, threadVars,
                    apiVars, validatorVars, s_text, features, company_profiles, similarity>>

NextRecommend == MatchRecordCall \/ RecommendCall

SpecRecommend == InitRecommend /\ [][NextRecommend]_vars

Recommended == s_out.op = "analyze_resume"

SkillCount == Cardinality(features.skills)

Years == features.experience.total_years

HasStrength(line) ==
    \E i \in DOMAIN s_out.result.strengths : s_out.result.strengths[i].text = line

StrengthAt(line) ==
    CHOOSE i \in DOMAIN s_out.result.strengths : s_out.result.strengths[i].text = line

SkillsStrength == "Strong technical skill set with {} identified skills"

ExperienceStrength == "Solid work experience of {} years"

EducationStrength == "Advanced education qualification"

\* C12: strengths holds the skills strength iff skill_count >= 10, the
\* experience strength iff exp_years >= 3 and the education strength iff
\* education_level >= 4, in that order and nothing else; for 12 skills, 3.5
\* years, level 3 and 650 words it holds the skills and the experience
\* strength and there is no improvement item.
C12_Strengths ==
    Recommended =>
        LET st == s_out.result.strengths
        IN  /\ HasStrength(SkillsStrength) <=> SkillCount >= 10
            /\ HasStrength(ExperienceStrength) <=> Years >= 30
            /\ HasStrength(EducationStrength) <=> features.education.highest_level >= 4
            /\ \A i \in DOMAIN st :
                   st[i].text \in {SkillsStrength, ExperienceStrength, EducationStrength}
            /\ \A i, j \in DOMAIN st : i # j => st[i].text # st[j].text
            /\ (HasStrength(SkillsStrength) /\ HasStrength(ExperienceStrength)) =>
                   StrengthAt(SkillsStrength) < StrengthAt(ExperienceStrength)
            /\ (HasStrength(ExperienceStrength) /\ HasStrength(EducationStrength)) =>
                   StrengthAt(ExperienceStrength) < StrengthAt(EducationStrength)
            /\ (HasStrength(SkillsStrength) /\ HasStrength(EducationStrength)) =>
                   StrengthAt(SkillsStrength) < StrengthAt(EducationStrength)
            /\ (/\ SkillCount = 12
                /\ Years = 35
                /\ features.education.highest_level = 3
                /\ features.word_count = 650) =>
                   /\ Len(st) = 2
                   /\ st[1].text = SkillsStrength
                   /\ st[2].text = ExperienceStrength
                   /\ s_out.result.improvements = <<>>

\* The record of the example, analysed.
C12_Witness ==
    /\ Recommended
    /\ SkillCount = 12
    /\ Years = 35
    /\ features.education.highest_level = 3
    /\ features.word_count = 650
    /\ Len(s_out.result.strengths) = 2

ImprovementItems ==
    << [area |-> "Technical Skills", impact |-> "High", priority |-> 1],
       [area |-> "Experience", impact |-> "High", priority |-> 1],
       [area |-> "Resume Length", impact |-> "Medium", priority |-> 2] >>

ImprovementDue(item) ==
    CASE item.area = "Technical Skills" -> SkillCount < 8
      [] item.area = "Experience" -> Years < 20
      [] item.area = "Resume Length" -> features.word_count < 500

\* C13: improvements is the subsequence of [Technical Skills (1, High),
\* Experience (1, High), Resume Length (2, Medium)] that holds each item iff
\* its condition (skill_count < 8, exp_years < 2, word_count < 500) holds, in
\* that order; its priorities are therefore non-decreasing.
C13_Improvements ==
    Recommended =>
        LET imp == s_out.result.improvements
        IN  /\ imp = SelectSeq(ImprovementItems, ImprovementDue)
            /\ \A i, j \in DOMAIN imp : i < j => imp[i].priority <= imp[j].priority

\* All three conditions hold.
C13_Witness ==
    /\ Recommended
    /\ SkillCount < 8
    /\ Years < 20
    /\ features.word_count < 500
    /\ Len(s_out.result.improvements) = 3

CatalogSet == {skill_categories[i] : i \in DOMAIN skill_categories}

\* C14: missing_skills is empty when the list of matches given to
\* analyze_resume is empty; otherwise it has at most 10 entries, each a skill
\* of the catalog, none equal to a skill of the candidate when case is
\* ignored.
C14_MissingSkills ==
    Recommended =>
        LET ms == s_out.result.missing_skills
        IN  /\ s_out.company_matches = <<>> => ms = <<>>
            /\ Len(ms) <= 10
            /\ \A i \in DOMAIN ms :
                   /\ ms[i] \in CatalogSet
                   /\ \A skill \in features.skills : Lower(skill) # Lower(ms[i])

\* Ten skills are suggested to a candidate whose skills are written with
\* capitals.
C14_Witness ==
    /\ Recommended
    /\ s_out.company_matches # <<>>
    /\ "Python" \in features.skills
    /\ Len(s_out.result.missing_skills) = 10

\* No match, no suggestion, for a candidate who lacks skills of the catalog.
C14_WitnessEmpty ==
    /\ Recommended
    /\ s_out.company_matches = <<>>
    /\ SkillCount = 0
    /\ s_out.result.missing_skills = <<>>

\* C17: each of the four components of overall_score is capped on its own:
\* the skills component at 30, the experience component at 30, the
\* education component at 20 and the length component at 20; a record
\* without experience and education therefore scores at most 50.
C17_ComponentsCapped ==
    Recommended =>
        /\ SkillsComponent(SkillCount) <= 30 * 40
        /\ ExperienceComponent(Years) <= 30 * 40
        /\ EducationComponent(features.education.highest_level) <= 20 * 40
        /\ LengthComponent(features.word_count) <= 20 * 40
        /\ (Years = 0 /\ features.education.highest_level = 0) =>
               s_out.result.overall_score <= 500

\* The sum of (end - start) over the ranges of the text, in text order,
\* with 2025 for an open end, in years.
RECURSIVE NaiveYears(_)
NaiveYears(ranges) ==
    IF ranges = <<>> THEN 0
    ELSE (IF Head(ranges).open THEN 2025 ELSE Head(ranges).end) - Head(ranges).start
         + NaiveYears(Tail(ranges))

\* C18: total_years is never negative, and it is the naive sum of
\* (end_year - start_year) over all matched ranges, 'present' and 'current'
\* counting as 2025, overlapping and reversed ranges included as written.
C18_TotalYears ==
    features # None =>
        /\ features.experience.total_years >= 0
        /\ features.experience.total_years = 10 * NaiveYears(YearRanges(TextParts(s_text)))

(***************************************************************************)
(* Specification of repeated extraction: one ResumeFeatureExtractor is     *)
(* called again and again, on the same and on other texts.                 *)
(***************************************************************************)
MaxCalls == 3

ExtractTexts ==
    {[lines |-> l, pad |-> 0] :
        l \in SUBSET {"Skills: Python, Java, Docker", "2018 - 2020", "PhD thesis",
                      "Master of Science, MBA"}}

InitExtract ==
    /\ ValidatorIdle
    /\ ScoringIdle
    /\ ApiIdle
    /\ MlIdle
    /\ ThreadsIdle
    /\ extractions = <<>>

\* feature_extractor.extract_all_features(text)
ExtractAllCall ==
    /\ Len(extractions) < MaxCalls
    /\ \E t \in ExtractTexts :
           extractions' = Append(extractions,
               [op |-> "extract_all_features", text |-> t,
                result |-> extract_all_features(t)])
    /\ UNCHANGED <<validatorVars, scoringVars, apiVars, mlVars, threadVars>>

\* feature_extractor.extract_skills(text), called on its own
ExtractSkillsCall ==
    /\ Len(extractions) < MaxCalls
    /\ \E t \in ExtractTexts :
           extractions' = Append(extractions,
               [op |-> "extract_skills", text |-> t,
                result |-> [skills |-> extract_skills(t)]])
    /\ UNCHANGED <<validatorVars, scoringVars, apiVars, mlVars, threadVars>>

NextExtract == ExtractAllCall \/ ExtractSkillsCall

SpecExtract == InitExtract /\ [][NextExtract]_vars

C26_Education ==
    \A k \in DOMAIN extractions :
        extractions[k].op = "extract_all_features" =>
            LET education == extractions[k].result.education
                recorded == {education.degrees[i].degree : i \in DOMAIN education.degrees}
                levels == {education.degrees[i].level : i \in DOMAIN education.degrees}
            IN  /\ levels \subseteq {2, 3, 4, 5}
                /\ levels = {} => education.highest_level = 0
                /\ levels # {} =>
                       /\ education.highest_level \in levels
                       /\ \A l \in levels : l <= education.highest_level
                /\ \A i \in DOMAIN degrees :
                       DegreeIn(degrees[i].degree, extractions[k].text) <=>
                           degrees[i].degree \in recorded
                /\ "Master of Science, MBA" \in extractions[k].text.lines =>
                       {"master", "mba"} \subseteq recorded

\* A text with a doctorate and a master's degree written in two forms.
C26_Witness ==
    \E k \in DOMAIN extractions :
        /\ extractions[k].op = "extract_all_features"
        /\ {"Master of Science, MBA", "PhD thesis"} \subseteq extractions[k].text.lines
        /\ Len(extractions[k].result.education.degrees) = 3
        /\ extractions[k].result.education.highest_level = 5

Artifacts ==
    <<"resume_classifier.pkl", "label_encoder.pkl",
      "placement_predictor.pkl", "skill_recommender.pkl">>

Loaded == [kind |-> "model"]

Unset == [kind |-> "unset"]

\* Index of the first artifact whose open() or pickle.load() raises; 0: none.
FirstFailure(artifacts) ==
    IF \A i \in DOMAIN Artifacts : artifacts[Artifacts[i]] = "ok"
    THEN 0
    ELSE CHOOSE i \in DOMAIN Artifacts :
             /\ artifacts[Artifacts[i]] # "ok"
             /\ \A j \in 1..(i - 1) : artifacts[Artifacts[j]] = "ok"

\* load_models whose except clause does not reset resume_classifier.
load_models_classifier_kept(artifacts) ==
    LET k == FirstFailure(artifacts) IN
    [resume_classifier   |-> IF k = 0 \/ k > 1 THEN Loaded ELSE Unset,
     label_encoder       |-> IF k = 0 \/ k > 2 THEN Loaded ELSE Unset,
     placement_predictor |-> IF k = 0 THEN Loaded ELSE None,
     skill_recommender   |-> IF k = 0 THEN Loaded ELSE None]

\* load_models resetting only what was not loaded before the failure.
load_models_keep_loaded(artifacts) ==
    LET k == FirstFailure(artifacts) IN
    [resume_classifier   |-> IF k = 0 \/ k > 1 THEN Loaded ELSE None,
     label_encoder       |-> IF k = 0 \/ k > 2 THEN Loaded ELSE Unset,
     placement_predictor |-> IF k = 0 \/ k > 3 THEN Loaded ELSE None,
     skill_recommender   |-> IF k = 0 THEN Loaded ELSE None]

\* The attributes after load_models: the loads run in order inside one
\* try; any exception sets the three models to None and leaves
\* label_encoder as it was (unset unless its load was reached).
load_models(artifacts) ==
    LET k == FirstFailure(artifacts) IN
    [resume_classifier   |-> IF k = 0 THEN Loaded ELSE None,
     label_encoder       |-> IF k = 0 \/ k > 2 THEN Loaded ELSE Unset,
     placement_predictor |-> IF k = 0 THEN Loaded ELSE None,
     skill_recommender   |-> IF k = 0 THEN Loaded ELSE None]

Clip(x, lo, hi) == IF x < lo THEN lo ELSE IF x > hi THEN hi ELSE x

\* The recommender's skill list and co-occurrence matrix (symmetric, with a
\* zero diagonal).
RecommenderSkills == <<"python", "sql", "docker", "aws">>

CoOccurrence(a, b) ==
    IF {a, b} = {"python", "sql"} THEN 3
    ELSE IF {a, b} = {"python", "docker"} /\ a # b THEN 3
    ELSE IF {a, b} = {"sql", "docker"} /\ a # b THEN 2
    ELSE IF {a, b} = {"python", "aws"} /\ a # b THEN 1
    ELSE 0

\* scores: the matrix rows of the current skills summed, then set to 0 at
\* the current skills; with current_indices as the second field.
Scores(current_skills) ==
    LET current_indices ==
            {i \in DOMAIN RecommenderSkills :
                 \E skill \in current_skills : Lower(skill) = RecommenderSkills[i]}
    IN  [current_indices |-> current_indices,
         scores |-> [i \in DOMAIN RecommenderSkills |->
             IF i \in current_indices THEN 0
             ELSE SumSeq([c \in DOMAIN RecommenderSkills |->
                      IF c \in current_indices
                      THEN CoOccurrence(RecommenderSkills[c], RecommenderSkills[i])
                      ELSE 0])]]

\* predict_resume_quality: prediction and confidence are the classifier's.
predict_resume_quality(models, prediction, confidence) ==
    IF models.resume_classifier = None
    THEN [raised |-> FALSE,
          result |-> [quality |-> "Unknown", confidence |-> 0]]
    ELSE IF models.label_encoder = Unset
    THEN [raised |-> TRUE, result |-> [error |-> "AttributeError"]]
    ELSE [raised |-> FALSE,
          result |-> [quality |-> prediction, confidence |-> confidence]]

\* predict_placement_probability: raw is the regressor's prediction.
predict_placement_probability(models, raw) ==
    IF models.placement_predictor = None
    THEN [raised |-> FALSE, result |-> [probability |-> 0]]
    ELSE [raised |-> FALSE, result |-> [probability |-> Clip(raw, 0, 1000)]]

\* recommend_skills: argsort is what np.argsort(scores) returned, an
\* ascending order of the indices whose order among equal scores is the
\* sorting routine's; the first top_n of its reverse are kept, and of those
\* the ones with a positive score.
recommend_skills(models, current_skills, top_n, argsort) ==
    IF models.skill_recommender = None
    THEN [raised |-> FALSE, result |-> [skills |-> <<>>]]
    ELSE LET s == Scores(current_skills)
             top_indices == SubSeq(Reverse(argsort), 1, Min(top_n, Len(argsort)))
             kept == SelectSeq(top_indices, LAMBDA i : s.scores[i] > 0)
         IN  [raised |-> FALSE,
              result |-> [skills |->
                  IF s.current_indices = {} THEN <<>>
                  ELSE [k \in 1..Len(kept) |-> RecommenderSkills[kept[k]]]]]

InitMl ==
    /\ ValidatorIdle
    /\ ScoringIdle
    /\ ApiIdle
    /\ ExtractorIdle
    /\ ThreadsIdle
    /\ ml_artifacts \in [{Artifacts[i] : i \in DOMAIN Artifacts} ->
                           {"ok", "missing", "corrupt"}]
    /\ ml_models = None
    /\ ml_out = [op |-> "none"]

\* ml = MLModelInference()
Construct ==
    /\ ml_models = None
    /\ ml_models' = load_models(ml_artifacts)
    /\ ml_out' = [op |-> "__init__", raised |-> FALSE]
    /\ UNCHANGED <<validatorVars, scoringVars, apiVars, extractorVars,
                   threadVars, ml_artifacts>>

PredictQuality ==
    /\ ml_models # None
    /\ \E prediction \in {"Good", "Average", "Poor"}, confidence \in {34, 50, 100} :
           LET r == predict_resume_quality(ml_models, prediction, confidence)
           IN  ml_out' = [op |-> "predict_resume_quality",
                          raised |-> r.raised, result |-> r.result]
    /\ UNCHANGED <<validatorVars, scoringVars, apiVars, extractorVars,
                   threadVars, ml_artifacts, ml_models>>

PredictPlacement ==
    /\ ml_models # None
    /\ \E raw \in {-50, 0, 425, 1000, 1200} :
           LET r == predict_placement_probability(ml_models, raw)
           IN  ml_out' = [op |-> "predict_placement_probability",
                          raised |-> r.raised, result |-> r.result]
    /\ UNCHANGED <<validatorVars, scoringVars, apiVars, extractorVars,
                   threadVars, ml_artifacts, ml_models>>

RecommendSkills ==
    /\ ml_models # None
    /\ \E current_skills \in {{}, {"Cobol"}, {"Python"}, {"SQL", "docker"}},
          top_n \in {1, 2, 5},
          argsort \in Permutations(DOMAIN RecommenderSkills) :
           LET r == recommend_skills(ml_models, current_skills, top_n, argsort)
               scores == Scores(current_skills).scores
           IN  /\ \A i, j \in DOMAIN argsort :
                      i < j => scores[argsort[i]] <= scores[argsort[j]]
               /\ ml_out' = [op |-> "recommend_skills", raised |-> r.raised,
                              result |-> r.result,
                              current_skills |-> current_skills, top_n |-> top_n]
    /\ UNCHANGED <<validatorVars, scoringVars, apiVars, extractorVars,
                   threadVars, ml_artifacts, ml_models>>

NextMl == Construct \/ PredictQuality \/ PredictPlacement \/ RecommendSkills

SpecMl == InitMl /\ [][NextMl]_vars

ArtifactFailed ==
    \E i \in DOMAIN Artifacts : ml_artifacts[Artifacts[i]] # "ok"

\* C16: when a model artifact is missing or fails to load, constructing
\* MLModelInference succeeds and no prediction method raises:
\* predict_resume_quality returns quality 'Unknown' with confidence 0.0,
\* predict_placement_probability returns 0.0, recommend_skills returns the
\* empty list.
C16_NeutralResults ==
    (ml_models # None /\ ArtifactFailed) =>
        /\ ml_out.raised = FALSE
        /\ ml_out.op = "predict_resume_quality" =>
               ml_out.result = [quality |-> "Unknown", confidence |-> 0]
        /\ ml_out.op = "predict_placement_probability" =>
               ml_out.result.probability = 0
        /\ ml_out.op = "recommend_skills" => ml_out.result.skills = <<>>

\* Only the last artifact is unreadable: the classifier was loaded before
\* the failure, and predict_resume_quality is then called.
C16_Witness ==
    /\ ml_models # None
    /\ FirstFailure(ml_artifacts) = 4
    /\ ml_artifacts["skill_recommender.pkl"] = "corrupt"
    /\ ml_out.op = "predict_resume_quality"

(***************************************************************************)
(* Specification of the tracker under threads.  Thread 0 constructed the   *)
(* tracker and remembers the counters it loaded; threads 1..MaxThreads     *)
(* each run one of track_request (status success or error),                *)
(* get_statistics and save_metrics.  A step is one read or one write of a  *)
(* counter: `x += 1` on a dictionary item is a read followed by a write,   *)
(* and the interpreter may switch threads between the two.                 *)
(***************************************************************************)
MaxThreads == 3

Workers == 1..MaxThreads

Tracking(kind) == kind \in {"track_success", "track_error"}

\* The counter that track_request updates after total_requests.
StatusCounter(kind) ==
    IF kind = "track_success" THEN "successful_requests" ELSE "error_count"

\* The order in which the counters are read: get_statistics builds stats,
\* save_metrics builds save_data.
ReadOrder(kind) ==
    IF kind = "get_statistics"
    THEN <<"total_requests", "successful_requests", "error_count">>
    ELSE <<"error_count", "total_requests", "successful_requests">>

Counters(m) ==
    [kind |-> "counters", total_requests |-> m.total_requests,
     successful_requests |-> m.successful_requests, error_count |-> m.error_count]

\* A tracker that found no file, and one that loaded what an earlier
\* process saved after one success and one error.
TrackerStarts ==
    {FreshMetrics,
     load_metrics(save_metrics(
         track_request(track_request(FreshMetrics, "success"), "error")))}

\* threading.Lock.acquire returns when no thread holds the lock.
CanAcquire_unlocked(t) == TRUE

CanAcquire(t) == lock = 0

InitTracker ==
    /\ ValidatorIdle
    /\ ScoringIdle
    /\ ExtractorIdle
    /\ MlIdle
    /\ uploads = <<>>
    /\ requests = <<>>
    /\ metrics \in TrackerStarts
    /\ lock = 0
    /\ \E kinds \in [Workers -> {"track_success", "track_error",
                               "get_statistics", "save_metrics"}] :
           threads = [t \in 0..MaxThreads |->
               IF t = 0
               THEN [kind |-> "__init__", pc |-> "done", tmp |-> 0,
                     snapshot |-> Counters(metrics)]
               ELSE [kind |-> kinds[t], pc |-> "start", tmp |-> 0,
                     snapshot |-> None]]

\* with self.lock:
Acquire(t) ==
    /\ threads[t].pc = "start"
    /\ CanAcquire(t)
    /\ lock' = t
    /\ threads' = [threads EXCEPT ![t].pc =
           IF Tracking(threads[t].kind) THEN "read_total" ELSE "read_1"]
    /\ UNCHANGED <<validatorVars, scoringVars, extractorVars, mlVars,
                   uploads, requests, metrics>>

\* self.metrics['total_requests'] += 1, the read
ReadTotal(t) ==
    /\ threads[t].pc = "read_total"
    /\ threads' = [threads EXCEPT ![t].pc = "write_total",
                                  ![t].tmp = metrics.total_requests]
    /\ UNCHANGED <<validatorVars, scoringVars, extractorVars, mlVars,
                   uploads, requests, metrics, lock>>

\* self.metrics['total_requests'] += 1, the write
WriteTotal(t) ==
    /\ threads[t].pc = "write_total"
    /\ metrics' = [metrics EXCEPT !.total_requests = threads[t].tmp + 1]
    /\ threads' = [threads EXCEPT ![t].pc = "read_status"]
    /\ UNCHANGED <<validatorVars, scoringVars, extractorVars, mlVars,
                   uploads, requests, lock>>

\* self.metrics['successful_requests' or 'error_count'] += 1, the read
ReadStatus(t) ==
    /\ threads[t].pc = "read_status"
    /\ threads' = [threads EXCEPT ![t].pc = "write_status",
                                  ![t].tmp = metrics[StatusCounter(threads[t].kind)]]
    /\ UNCHANGED <<validatorVars, scoringVars, extractorVars, mlVars,
                   uploads, requests, metrics, lock>>

\* self.metrics['successful_requests' or 'error_count'] += 1, the write
WriteStatus(t) ==
    /\ threads[t].pc = "write_status"
    /\ metrics' = [metrics EXCEPT ![StatusCounter(threads[t].kind)] =
                       threads[t].tmp + 1]
    /\ threads' = [threads EXCEPT ![t].pc = "release"]
    /\ UNCHANGED <<validatorVars, scoringVars, extractorVars, mlVars,
                   uploads, requests, lock>>

\* One counter copied into stats (get_statistics) or save_data
\* (save_metrics).
ReadCounter(t) ==
    /\ threads[t].pc \in {"read_1", "read_2", "read_3"}
    /\ LET i == CASE threads[t].pc = "read_1" -> 1
                  [] threads[t].pc = "read_2" -> 2
                  [] OTHER -> 3
           key == ReadOrder(threads[t].kind)[i]
           old == IF threads[t].snapshot = None
                  THEN [kind |-> "counters", total_requests |-> 0,
                        successful_requests |-> 0, error_count |-> 0]
                  ELSE threads[t].snapshot
       IN  threads' = [threads EXCEPT
               ![t].pc = CASE i = 1 -> "read_2" [] i = 2 -> "read_3"
                           [] OTHER -> "release",
               ![t].snapshot = [old EXCEPT ![key] = metrics[key]]]
    /\ UNCHANGED <<validatorVars, scoringVars, extractorVars, mlVars,
                   uploads, requests, metrics, lock>>

\* The end of the with block.
Release(t) ==
    /\ threads[t].pc = "release"
    /\ lock' = 0
    /\ threads' = [threads EXCEPT ![t].pc = "done"]
    /\ UNCHANGED <<validatorVars, scoringVars, extractorVars, mlVars,
                   uploads, requests, metrics>>

NextTracker ==
    \E t \in Workers :
        \/ Acquire(t)
        \/ ReadTotal(t)
        \/ WriteTotal(t)
        \/ ReadStatus(t)
        \/ WriteStatus(t)
        \/ ReadCounter(t)
        \/ Release(t)

SpecTracker == InitTracker /\ [][NextTracker]_vars

AllDone == \A t \in Workers : threads[t].pc = "done"

Calls(kind) == Cardinality({t \in Workers : threads[t].kind = kind})

SnapshotTaken(t) ==
    /\ threads[t].kind \in {"get_statistics", "save_metrics"}
    /\ threads[t].pc \in {"release", "done"}

\* C19: from a tracker with total_requests = T, after N concurrent
\* track_request calls interleaved in any way with each other and with
\* get_statistics and save_metrics calls, total_requests is T + N and no
\* increment of a counter is lost; no get_statistics or save_metrics
\* snapshot shows successful_requests + error_count above total_requests.
C19_CountersAtomic ==
    /\ AllDone =>
           /\ metrics.total_requests =
                  threads[0].snapshot.total_requests
                      + Calls("track_success") + Calls("track_error")
           /\ metrics.successful_requests =
                  threads[0].snapshot.successful_requests + Calls("track_success")
           /\ metrics.error_count =
                  threads[0].snapshot.error_count + Calls("track_error")
    /\ \A t \in Workers :
           SnapshotTaken(t) =>
               threads[t].snapshot.successful_requests
                   + threads[t].snapshot.error_count
                       <= threads[t].snapshot.total_requests

\* Two track_request calls and a get_statistics call have all returned, and
\* the snapshot was taken between the two updates.
C19_Witness ==
    /\ AllDone
    /\ Calls("track_success") + Calls("track_error") = 2
    /\ \E t \in Workers :
           /\ threads[t].kind = "get_statistics"
           /\ threads[t].snapshot.total_requests =
                  threads[0].snapshot.total_requests + 1

\* A recommend_skills call on a loaded recommender has returned.
Recommender == ml_out.op = "recommend_skills" /\ ml_models.skill_recommender = Loaded

SkillIndex(skill) ==
    CHOOSE i \in DOMAIN RecommenderSkills : RecommenderSkills[i] = skill

\* What C21 says apart from the order among equal scores: at most top_n
\* skills, none of them a current skill, each with a positive score, in
\* descending order of score, and none when no current skill is known.
RecommendedByScore ==
    Recommender =>
        LET out == ml_out.result.skills
            s == Scores(ml_out.current_skills)
        IN  /\ Len(out) <= ml_out.top_n
            /\ \A k \in DOMAIN out :
                   /\ SkillIndex(out[k]) \notin s.current_indices
                   /\ s.scores[SkillIndex(out[k])] > 0
            /\ \A k, l \in DOMAIN out :
                   k < l => s.scores[SkillIndex(out[k])] >= s.scores[SkillIndex(out[l])]
            /\ s.current_indices = {} => out = <<>>

\* C21: recommend_skills returns at most top_n skills, none of them a
\* current skill, each with a positive summed co-occurrence score, in
\* descending order of score, and among skills of equal score the one with
\* the lowest index in the recommender's skill list first; it returns the
\* empty list when no current skill is known to the recommender.
C21_RecommendedOrder ==
    /\ RecommendedByScore
    /\ Recommender =>
           LET out == ml_out.result.skills
               s == Scores(ml_out.current_skills)
           IN  \A k, l \in DOMAIN out :
                   (/\ k < l
                    /\ s.scores[SkillIndex(out[k])] = s.scores[SkillIndex(out[l])]) =>
                       SkillIndex(out[k]) < SkillIndex(out[l])

\* C30: the artifacts load all-or-nothing.  When the load of any of the
\* four fails, resume_classifier, placement_predictor and skill_recommender
\* are all None and the three prediction methods return their neutral
\* results, also for a model whose own artifact was loaded; and the
\* classifier is never usable without a loaded label encoder.
C30_AllOrNothing ==
    ml_models # None =>
        /\ ArtifactFailed =>
               /\ ml_models.resume_classifier = None
               /\ ml_models.placement_predictor = None
               /\ ml_models.skill_recommender = None
               /\ ml_out.op = "predict_resume_quality" =>
                      ml_out.result.quality = "Unknown"
               /\ ml_out.op = "predict_placement_probability" =>
                      ml_out.result.probability = 0
               /\ ml_out.op = "recommend_skills" => Len(ml_out.result.skills) = 0
        /\ ~ArtifactFailed =>
               \A a \in DOMAIN ml_models : ml_models[a] = Loaded
        /\ ml_models.resume_classifier \notin {None, Unset} =>
               ml_models.label_encoder = Loaded
        /\ ~ml_out.raised

\* The classifier's own artifact is present and was loaded, the label
\* encoder's is missing, and predict_resume_quality is called.
C30_Witness ==
    /\ ml_models # None
    /\ ml_artifacts["resume_classifier.pkl"] = "ok"
    /\ ml_artifacts["label_encoder.pkl"] = "missing"
    /\ ml_out.op = "predict_resume_quality"
    /\ ml_out.result = [quality |-> "Unknown", confidence |-> 0]

(***************************************************************************)
(* Specification of the offline profile building:                          *)
(* create_company_profiles on a frame of scraped postings.  A posting has  *)
(* a target_company and a description, which is NaN or a text; of a text   *)
(* the model keeps the numbers of its "<N>+ years" mentions, in the order  *)
(* in which they are written.                                              *)
(***************************************************************************)
MaxJobs == 2

\* create_company_profiles(jobs_df): one profile per company, in the order
\* of unique(); re.search gives the first mention of a description.
create_company_profiles(jobs_df) ==
    LET rows == DOMAIN jobs_df
        unique == SelectSeq([i \in rows |-> i],
                      LAMBDA i : \A j \in 1..(i - 1) :
                          jobs_df[j].target_company # jobs_df[i].target_company)
        company_jobs(c) == {i \in rows : jobs_df[i].target_company = c}
        matched(c) == {i \in company_jobs(c) :
                          /\ jobs_df[i].description.kind = "text"
                          /\ jobs_df[i].description.years # <<>>}
        level(i) == jobs_df[i].description.years[1]
        total(c) == SumSeq([i \in rows |-> IF i \in matched(c) THEN level(i) ELSE 0])
        profile(c) ==
            [company_name |-> c,
             job_count |-> Cardinality(company_jobs(c)),
             description_text |->
                 IF \E i \in company_jobs(c) : jobs_df[i].description.kind = "text"
                 THEN "postings" ELSE "",
             avg_experience_required |->
                 IF matched(c) # {}
                 THEN [num |-> total(c), den |-> Cardinality(matched(c))]
                 ELSE [num |-> 2, den |-> 1],
             min_experience |->
                 IF matched(c) # {}
                 THEN level(CHOOSE i \in matched(c) :
                                \A j \in matched(c) : level(i) <= level(j))
                 ELSE 0,
             max_experience |->
                 IF matched(c) # {}
                 THEN level(CHOOSE i \in matched(c) :
                                \A j \in matched(c) : level(i) >= level(j))
                 ELSE 5]
    IN  [k \in 1..Len(unique) |-> profile(jobs_df[unique[k]].target_company)]

\* A matcher that found no profile file.
InitProfiles ==
    /\ ValidatorIdle
    /\ ScoringIdle
    /\ ApiIdle
    /\ OthersIdle

\* matcher.create_company_profiles(jobs_df).  The descriptions of the
\* postings are: none, without a mention, with one, and with two mentions
\* ("3+ years of Python, 8 years overall").
CreateProfilesCall ==
    /\ \E n \in 1..MaxJobs :
           \E jobs_df \in [1..n ->
                   [target_company : {"Google", "TCS"},
                    description : {[kind |-> "nan"]} \cup
                        {[kind |-> "text", years |-> y] :
                             y \in {<<>>, <<3>>, <<5>>, <<3, 8>>}}]] :
               /\ company_profiles' = create_company_profiles(jobs_df)
               /\ s_out' = [op |-> "create_company_profiles", jobs_df |-> jobs_df]
    /\ UNCHANGED <<validatorVars, apiVars, extractorVars, mlVars, threadVars,
                   s_text, features, similarity>>

NextProfiles == CreateProfilesCall

SpecProfiles == InitProfiles /\ [][NextProfiles]_vars

Built == s_out.op = "create_company_profiles"

\* All the mentions of the postings of a company, as the pairs <<posting,
\* position>>, and the number each stands for.
Mentions(c) ==
    {m \in (DOMAIN s_out.jobs_df) \X {1, 2} :
        LET job == s_out.jobs_df[m[1]]
        IN  /\ job.target_company = c
            /\ job.description.kind = "text"
            /\ m[2] <= Len(job.description.years)}

MentionYears(m) == s_out.jobs_df[m[1]].description.years[m[2]]

\* In a built profile min_experience <= avg_experience_required <=
\* max_experience.
ProfileOrdered ==
    Built =>
        \A k \in DOMAIN company_profiles :
            LET p == company_profiles[k]
            IN  /\ p.min_experience * p.avg_experience_required.den
                       <= p.avg_experience_required.num
                /\ p.avg_experience_required.num
                       <= p.max_experience * p.avg_experience_required.den

\* C22: create_company_profiles gives every company the average, minimum
\* and maximum of all the experience-year mentions found across its
\* postings, every mention of a posting counted, and 2 / 0 / 5 when no
\* posting has a mention; so min_experience <= avg_experience_required <=
\* max_experience in every built profile.
C22_AllMentions ==
    /\ ProfileOrdered
    /\ Built =>
           \A k \in DOMAIN company_profiles :
               LET p == company_profiles[k]
                   all == Mentions(p.company_name)
                   sum == SumSeq([i \in DOMAIN s_out.jobs_df |->
                              SumSeq([j \in 1..2 |->
                                  IF <<i, j>> \in all THEN MentionYears(<<i, j>>)
                                  ELSE 0])])
               IN  IF all = {}
                   THEN /\ p.avg_experience_required = [num |-> 2, den |-> 1]
                        /\ p.min_experience = 0
                        /\ p.max_experience = 5
                   ELSE /\ p.avg_experience_required.num * Cardinality(all)
                               = sum * p.avg_experience_required.den
                        /\ \A m \in all : /\ p.min_experience <= MentionYears(m)
                                          /\ p.max_experience >= MentionYears(m)

SkillsTip == "Add a dedicated 'Skills' section to highlight your technical expertise"

ExperienceTip ==
    "Include an 'Experience' section with relevant projects, internships, or volunteer work"

GeneralTips ==
    << "Use action verbs (developed, implemented, led) to describe accomplishments",
       "Quantify achievements with metrics (e.g., 'Improved performance by 30%')",
       "Keep formatting consistent throughout the document",
       "Ensure contact information is clearly visible at the top" >>

\* C25: format_suggestions is the 'Skills' section tip iff the skill list is
\* empty, then the 'Experience' section tip iff total_years is exactly 0,
\* then the four general tips in their fixed order; it has 4 to 6 entries,
\* and the rendering shows its first 5 entries at most.
C25_FormatSuggestions ==
    Recommended =>
        LET fs == s_out.result.format_suggestions
            n == Len(fs)
            shown == DisplayedTips(s_out.result)
        IN  /\ n \in 4..6
            /\ SubSeq(fs, n - 3, n) = GeneralTips
            /\ (\E i \in 1..(n - 4) : fs[i] = SkillsTip) <=> features.skills = {}
            /\ (\E i \in 1..(n - 4) : fs[i] = ExperienceTip) <=> Years = 0
            /\ \A i \in 1..(n - 4) : fs[i] \in {SkillsTip, ExperienceTip}
            /\ n = 6 => (fs[1] = SkillsTip /\ fs[2] = ExperienceTip)
            /\ Len(shown) = Min(5, n)
            /\ \A i \in DOMAIN shown : shown[i] = fs[i]

\* A record without skills and without experience: six suggestions, of
\* which the last general tip is not shown.
C25_Witness ==
    /\ Recommended
    /\ features.skills = {}
    /\ Years = 0
    /\ Len(s_out.result.format_suggestions) = 6
    /\ Len(DisplayedTips(s_out.result)) = 5

\* The total_years compared lie a year apart, in tenths of a year, up to
\* MaxYearSteps years.
YearStep == 10

MaxYearSteps == 12

\* The text lengths compared lie LengthStep apart, up to MaxLengthSteps steps
\* from the record's own.
LengthStep == 500

MaxLengthSteps == 5

\* The values highest_level takes: 0 and the levels of the degree table.
Levels == {0} \cup {degrees[i].level : i \in DOMAIN degrees}

\* The skill lists the extractor produces on the resumes of the vocabulary.
SkillLists == {UNION {LineSkills(l) : l \in ls} : ls \in SUBSET ScoringLines}

\* The records that differ from resume_features in one feature only.
OtherExperience(resume_features) ==
    {[resume_features EXCEPT !.experience.total_years = k * YearStep] :
        k \in 0..MaxYearSteps}

OtherLevel(resume_features) ==
    {[resume_features EXCEPT !.education.highest_level = l] : l \in Levels}

OtherSkills(resume_features) ==
    {[resume_features EXCEPT !.skills = s] : s \in SkillLists}

OtherLength(resume_features) ==
    {[resume_features EXCEPT !.text_length = resume_features.text_length + k * LengthStep] :
        k \in 0..MaxLengthSteps}

\* The placement of the record g for the company and on the profiles of the
\* call that was made.
PlacementOf(g, ties) ==
    calculate_placement_probability(s_out.before, similarity, g, s_out.company, ties)

\* One tie direction of the completeness factor with each of the probability:
\* the probability does not depend on the former.
PlacementTies == {ties \in Ties : ties.completeness}

\* The call made rounded its probability as ties.probability says.
PlacedWith(ties) ==
    s_out.result.probability = PlacementOf(features, ties).probability

\* The record g has the skills-match similarity of the record placed.
SameSimilarity(g) ==
    calculate_match_score(s_out.before, similarity, g, s_out.company)
        = s_out.result.factors.skills_match

\* g has at least (at most) the value of the record placed in each of the
\* four features.
AtLeast(g) ==
    /\ g.experience.total_years >= features.experience.total_years
    /\ g.education.highest_level >= features.education.highest_level
    /\ Cardinality(g.skills) >= Cardinality(features.skills)
    /\ g.text_length >= features.text_length

AtMost(g) ==
    /\ g.experience.total_years <= features.experience.total_years
    /\ g.education.highest_level <= features.education.highest_level
    /\ Cardinality(g.skills) <= Cardinality(features.skills)
    /\ g.text_length <= features.text_length

\* C29: for a profile with avg_experience_required >= 0 and the other
\* features fixed, the experience-match factor and the probability do not
\* decrease when total_years grows, and the probability does not decrease
\* when highest_level, the number of skills or text_length grows while the
\* skills-match similarity stays the same.
C29_Monotone ==
    (PlacedKnown /\ s_out.result.required_experience.num >= 0) =>
        \A ties \in PlacementTies :
            PlacedWith(ties) =>
                /\ \A g \in OtherExperience(features) :
                       LET r == PlacementOf(g, ties)
                       IN  /\ AtLeast(g) =>
                                 /\ r.factors.experience_match
                                        >= s_out.result.factors.experience_match
                                 /\ r.probability >= s_out.result.probability
                           /\ AtMost(g) =>
                                 /\ r.factors.experience_match
                                        <= s_out.result.factors.experience_match
                                 /\ r.probability <= s_out.result.probability
                /\ \A g \in OtherLevel(features) \cup OtherSkills(features)
                                \cup OtherLength(features) :
                       SameSimilarity(g) =>
                           LET r == PlacementOf(g, ties)
                           IN  /\ AtLeast(g) => r.probability >= s_out.result.probability
                               /\ AtMost(g) => r.probability <= s_out.result.probability

\* A placement with the lowest experience factor that more years raise to
\* the highest, that fewer skills and a lower level lower, and that a longer
\* text raises; a longer list of skills at the same similarity is compared.
C29_Witness ==
    /\ PlacedKnown
    /\ s_out.result.required_experience.num > 0
    /\ s_out.result.factors.experience_match = 300
    /\ \E ties \in PlacementTies :
           /\ PlacedWith(ties)
           /\ \E g \in OtherExperience(features) :
                  /\ AtLeast(g)
                  /\ PlacementOf(g, ties).factors.experience_match = 1000
                  /\ PlacementOf(g, ties).probability > s_out.result.probability
           /\ \E g \in OtherLevel(features) :
                  /\ AtMost(g)
                  /\ PlacementOf(g, ties).probability < s_out.result.probability
           /\ \E g \in OtherSkills(features) :
                  /\ SameSimilarity(g)
                  /\ AtLeast(g)
                  /\ Cardinality(g.skills) > Cardinality(features.skills)
                  /\ PlacementOf(g, ties).probability > s_out.result.probability
           /\ \E g \in OtherLength(features) :
                  /\ AtLeast(g)
                  /\ PlacementOf(g, ties).probability > s_out.result.probability

====
